---- MODULE Spec2Model ----
(***************************************************************************)
(* Verification model of the cava broker of user_scripts/waybar/cava.py:   *)
(* the liveness registry (_quick_check_running), broker startup            *)
(* (main, CavaServer.start), cleanup, and the broker's threads.            *)
(*                                                                         *)
(* Two layers share the on-disk artifacts socket_file and pid_file:        *)
(*   - the registry layer: several processes (managers, status probes)     *)
(*     racing on the artifacts, one step per system call;                  *)
(*   - the broker layer: the threads of one started broker.                *)
(***************************************************************************)
EXTENDS Integers, Sequences, FiniteSets, TLC

(***************************************************************************)
(* Processes of the registry layer.  Pids are small numbers so that their  *)
(* decimal text fits one character.                                        *)
(***************************************************************************)
Managers == {1, 2}          \* processes running `cava.py manager`
Probers == {3}              \* processes running `cava.py status`
DeadPids == {4}             \* a pid no process holds (a crashed earlier broker)
ForeignPids == {5}          \* a pid held by an unrelated live process
Procs == Managers \cup Probers

\* The broker process whose threads are modelled.
Broker == CHOOSE p \in Managers : \A q \in Managers : p <= q

\* How many times a status probe may be run again after it exited.
MaxProbes == 2

\* The largest pid os.kill converts to the C pid_t; beyond it: OverflowError.
PidTMax == 2147483647
\* DecimalValue's result for a digit string whose value exceeds PidTMax.
OverRange == -1

\* Broker layer: the connections peers may open to the one broker, the
\* lines its analyzers may emit in total, the signals it may receive and
\* the chunks the peers may send in all.
MaxConns == 2
MaxLines == 2
MaxSignals == 2
MaxChunks == 2

Conns == 1..MaxConns

VARIABLES
    socket_file,    \* {} = no file at the socket path; {p} = the inode p bound
    pid_file,       \* <<>> = no marker; <<text>> = the marker's characters
    proc,           \* per process: control point and locals
    probes,         \* how many status probes have been launched
    \* ---- the state of one broker (CavaServer) ----
    clients,        \* self.clients: the list of registered connections
    clients_lock,   \* self.clients_lock: "free" or the thread holding it
    cava_process,   \* self.cava_process: 0 (none) or an index into cava
    should_shutdown,\* self.should_shutdown
    shutdown_event, \* self.shutdown_event.is_set()
    config_file,    \* the parameters last written to cava.manager.conf
    acc,            \* the accept thread (handle_client_connections)
    rdr,            \* the reader thread (read_cava_output)
    lst,            \* per connection: its _client_command_listener thread
    launched,       \* per connection: the analyzer its listener has launched
                    \* and not yet stored in self.cava_process (0 = none)
    \* ---- the broker's environment ----
    cava,           \* every analyzer process launched: "live" or "dead"
    stdout,         \* per analyzer: the lines in its pipe, not yet read
    emitted,        \* how many lines the analyzers have emitted
    peer,           \* per connection: the peer's end
    srv,            \* per connection: the broker's end
    inbox,          \* per connection: chunks sent by the peer, unread
    sent,           \* how many chunks the peers have sent in all
    recvd,          \* per connection: the lines delivered to the peer
    signals,        \* how many signals were delivered to the broker
    registered,     \* the connections ever added to self.clients
    \* ---- calls of the pure functions ----
    fmt,            \* one call of CavaDataParser: arguments and result
    res,            \* one CavaWaybarClient.start: the display settings it resolves
    gen,            \* one _create_cava_config at start(): arguments and result
    sub             \* one subscriber session: CavaWaybarClient.start from connect on

regVars == <<socket_file, pid_file, proc, probes>>
serverVars == <<clients, clients_lock, cava_process, should_shutdown,
                shutdown_event, config_file, acc, rdr, lst, launched>>
envVars == <<cava, stdout, emitted, peer, srv, inbox, sent, recvd, signals,
             registered>>
callVars == <<fmt, res, gen, sub>>
brokerVars == <<serverVars, envVars, callVars>>
sysVars == <<regVars, serverVars, envVars>>
vars == <<regVars, brokerVars>>

(***************************************************************************)
(* Text <-> number, as str() and int(f.read().strip()) compute them.       *)
(***************************************************************************)
DigitChars == <<"0", "1", "2", "3", "4", "5", "6", "7", "8", "9">>
Whitespace == {" ", "\n"}

DigitVal(c) == (CHOOSE i \in 1..10 : DigitChars[i] = c) - 1

IsDigit(c) == \E i \in 1..10 : DigitChars[i] = c

RECURSIVE DecimalText(_)
DecimalText(n) ==
    IF n < 10 THEN <<DigitChars[n + 1]>>
    ELSE DecimalText(n \div 10) \o <<DigitChars[(n % 10) + 1]>>

RECURSIVE LStrip(_)
LStrip(s) ==
    IF s # <<>> /\ Head(s) \in Whitespace THEN LStrip(Tail(s)) ELSE s

RECURSIVE RStrip(_)
RStrip(s) ==
    IF s # <<>> /\ s[Len(s)] \in Whitespace
    THEN RStrip(SubSeq(s, 1, Len(s) - 1)) ELSE s

Strip(s) == RStrip(LStrip(s))

\* int(text) succeeds (no ValueError): a non-empty run of digits.
ParsesAsInt(s) == s # <<>> /\ \A i \in 1..Len(s) : IsDigit(s[i])

\* The value of a digit string; OverRange once it exceeds PidTMax.
RECURSIVE DecimalAcc(_, _)
DecimalAcc(sofar, s) ==
    IF s = <<>> THEN sofar
    ELSE LET d == DigitVal(Head(s)) IN
         IF sofar > (PidTMax - d) \div 10 THEN OverRange
         ELSE DecimalAcc(sofar * 10 + d, Tail(s))

DecimalValue(s) == DecimalAcc(0, s)

\* No call of a pure function is in progress.
NoCall == [pc |-> "none"]

(***************************************************************************)
(* The operating system's view of processes and of the socket path.        *)
(***************************************************************************)
Terminal == {"exited", "crashed", "raised"}

Alive(p) == proc[p].pc \notin Terminal

\* os.kill(n, 0) succeeds: a process with pid n exists.
PidExists(n) ==
    \/ n \in ForeignPids
    \/ n \in Procs /\ Alive(n)

\* os.kill(n, 0) returns without OSError: pid 0 stands for the caller's own
\* process group, which always exists.
KillSucceeds(n) == n = 0 \/ PidExists(n)

\* connect(socket_file) succeeds: the inode at the path belongs to a live
\* process that is listening on it.
Connectable ==
    \E b \in socket_file :
        b \in Procs /\ Alive(b) /\ proc[b].server_socket = "listening"

(***************************************************************************)
(* The artifacts a run may find on disk when it starts.                    *)
(***************************************************************************)
InitSocketFiles == {{}} \cup {{g} : g \in DeadPids}

InitPidFiles ==
    {<<>>,                                          \* no marker
     <<<<>>>>,                                      \* empty marker
     <<<<"x">>>>,                                   \* not a number
     <<<<"9", "9", "9", "9", "9", "9", "9", "9", "9", "9">>>>, \* out of range
     <<<<" ", "4", "\n">>>>}                        \* a dead pid, padded
    \cup {<<DecimalText(g)>> : g \in DeadPids \cup ForeignPids}

InitProc ==
    [pc |-> "q_connect",
     server_socket |-> "none",
     successfully_started |-> FALSE,
     owns_pid_file |-> FALSE,
     pid |-> 0,
     pid_fd |-> FALSE,
     ctx |-> "main",
     binds |-> 0,
     faults |-> <<>>,
     analyzer |-> FALSE,
     wrote_pid |-> FALSE,
     rm_sock |-> FALSE,
     rm_pid |-> FALSE,
     exit_status |-> -1,
     exit_why |-> ""]
\* binds, analyzer, wrote_pid, rm_sock and rm_pid record what the process did
\* (calls of bind(), Popen succeeded, _write_pid_file ran, cleanup removed the
\* socket file / marker); faults holds the errors the file system has in
\* store for the process's calls of bind().

\* The broker layer before any broker has started its threads.
BrokerIdle ==
    /\ clients = <<>>
    /\ clients_lock = "free"
    /\ cava_process = 0
    /\ should_shutdown = FALSE
    /\ shutdown_event = FALSE
    /\ config_file = <<>>
    /\ acc = [pc |-> "done", conn |-> 0]
    /\ rdr = [pc |-> "done", line |-> 0]
    /\ lst = [c \in Conns |-> "none"]
    /\ launched = [c \in Conns |-> 0]
    /\ cava = <<>>
    /\ stdout = <<>>
    /\ emitted = 0
    /\ peer = [c \in Conns |-> "idle"]
    /\ srv = [c \in Conns |-> "none"]
    /\ inbox = [c \in Conns |-> <<>>]
    /\ sent = 0
    /\ recvd = [c \in Conns |-> <<>>]
    /\ signals = 0
    /\ registered = {}

RegInit ==
    /\ socket_file \in InitSocketFiles
    /\ pid_file \in InitPidFiles
    /\ proc = [p \in Procs |-> InitProc]
    /\ probes = 0
    /\ BrokerIdle
    /\ fmt = NoCall /\ res = NoCall /\ gen = NoCall /\ sub = NoCall

(***************************************************************************)
(* Registry layer: helpers.                                                *)
(***************************************************************************)
SetProc(p, r) == proc' = [proc EXCEPT ![p] = r]

\* The process ends with the given status; the kernel closes its sockets
\* and its locals are gone.
Exited(r, status, why) ==
    [r EXCEPT !.pc = "exited",
              !.exit_status = status,
              !.exit_why = why,
              !.server_socket = IF @ = "none" THEN "none" ELSE "closed",
              !.owns_pid_file = FALSE,
              !.pid = 0,
              !.pid_fd = FALSE,
              !.ctx = "main"]

\* What the caller of _quick_check_running does with its result:
\* main's manager branch prints and exits 0 when alive and calls start()
\* otherwise; main's status branch exits 0 when alive and 1 otherwise.
AfterCheck(p, r, result) ==
    IF p \in Managers
    THEN IF result THEN Exited(r, 0, "already_running")
                   ELSE [r EXCEPT !.pc = "s_bind"]
    ELSE IF result THEN Exited(r, 0, "status_alive")
                   ELSE Exited(r, 1, "status_dead")

\* Unlinking the marker detaches every descriptor open on it.
Unlinked(q, r) == [r EXCEPT !.pid_fd = FALSE]

(***************************************************************************)
(* _quick_check_running, one step per system call.                         *)
(***************************************************************************)
\* os.path.exists(socket_file) and the test connection.
QuickCheckConnect(p) ==
    /\ proc[p].pc = "q_connect"
    /\ SetProc(p, IF socket_file = {} THEN [proc[p] EXCEPT !.pc = "q_read_pid"]
                  ELSE IF Connectable THEN AfterCheck(p, proc[p], TRUE)
                  ELSE [proc[p] EXCEPT !.pc = "q_rm_sock"])
    /\ UNCHANGED <<socket_file, pid_file, probes>>
    /\ UNCHANGED brokerVars

\* The connection failed: os.remove(socket_file), FileNotFoundError ignored.
QuickCheckRemoveSocket(p) ==
    /\ proc[p].pc = "q_rm_sock"
    /\ socket_file' = {}
    /\ SetProc(p, [proc[p] EXCEPT !.pc = "q_read_pid"])
    /\ UNCHANGED <<pid_file, probes>>
    /\ UNCHANGED brokerVars

\* os.path.exists(pid_file), open, read, strip, int.
QuickCheckReadPid(p) ==
    /\ proc[p].pc = "q_read_pid"
    /\ SetProc(p, IF pid_file = <<>> THEN AfterCheck(p, proc[p], FALSE)
                  ELSE IF ~ParsesAsInt(Strip(pid_file[1]))
                       THEN [proc[p] EXCEPT !.pc = "q_rm_pid"]
                  ELSE [proc[p] EXCEPT !.pc = "q_kill",
                                       !.pid = DecimalValue(Strip(pid_file[1]))])
    /\ UNCHANGED <<socket_file, pid_file, probes>>
    /\ UNCHANGED brokerVars

\* os.kill(pid, 0): OverflowError is neither OSError nor ValueError/IOError,
\* so it leaves _quick_check_running and ends the process with a traceback.
QuickCheckKill(p) ==
    /\ proc[p].pc = "q_kill"
    /\ SetProc(p, IF proc[p].pid = OverRange
                  THEN [Exited(proc[p], 1, "OverflowError") EXCEPT !.pc = "raised"]
                  ELSE IF KillSucceeds(proc[p].pid) THEN AfterCheck(p, proc[p], TRUE)
                  ELSE [proc[p] EXCEPT !.pc = "q_rm_pid"])
    /\ UNCHANGED <<socket_file, pid_file, probes>>
    /\ UNCHANGED brokerVars

\* os.remove(pid_file), FileNotFoundError ignored; then return False.
QuickCheckRemovePid(p) ==
    /\ proc[p].pc = "q_rm_pid"
    /\ pid_file' = <<>>
    /\ proc' = [q \in Procs |->
                  IF q = p THEN AfterCheck(p, Unlinked(p, proc[p]), FALSE)
                  ELSE Unlinked(q, proc[q])]
    /\ UNCHANGED <<socket_file, probes>>
    /\ UNCHANGED brokerVars

QuickCheckRunning(p) ==
    \/ QuickCheckConnect(p)
    \/ QuickCheckRemoveSocket(p)
    \/ QuickCheckReadPid(p)
    \/ QuickCheckKill(p)
    \/ QuickCheckRemovePid(p)

\* The status command is run again.
Relaunch(p) ==
    /\ p \in Probers
    /\ proc[p].pc \in Terminal
    /\ probes < MaxProbes
    /\ probes' = probes + 1
    /\ SetProc(p, InitProc)
    /\ UNCHANGED <<socket_file, pid_file>>
    /\ UNCHANGED brokerVars

(***************************************************************************)
(* CavaServer.start up to the launch of the threads.                       *)
(***************************************************************************)
\* bind(socket_file): EADDRINUSE (errno 98) when a file is at the path.
BindFails == socket_file # {}


\* The errno of a bind() by a process with these errors in store: 98 when
\* a file is at the path; otherwise the first error in store (2: the
\* directory has vanished, 13: permission denied), or 0 (success).
BindErrno(faults) ==
    IF BindFails THEN 98
    ELSE IF faults = <<>> THEN 0
    ELSE Head(faults)

\* The errors still in store after that bind().
FaultsLeft(faults) ==
    IF BindFails \/ faults = <<>> THEN faults ELSE Tail(faults)

\* A start() that tries again after every bind error but address-in-use.
RetriesBindWhateverErrno(errno) == errno # 98

\* elif e.errno == 2: os.makedirs(...) and a second bind
RetriesBind(errno) == errno = 2

\* The bind succeeded.
Bound(r, n) ==
    [r EXCEPT !.pc = "s_listen", !.binds = n, !.server_socket = "bound"]

\* A start() that goes on to write the marker although the bind failed.
BindFailedWritesMarker(r, n, errno) ==
    [r EXCEPT !.pc = "s_pid_open",
              !.server_socket = "closed",
              !.binds = n,
              !.exit_why = IF errno = 98 THEN "addr_in_use" ELSE "bind_error"]

\* The bind failed for good: print, close, sys.exit(1), which the finally
\* clause of start() intercepts.
BindFailed(r, n, errno) ==
    [r EXCEPT !.pc = "c_guard",
              !.server_socket = "closed",
              !.ctx = "finally",
              !.binds = n,
              !.exit_why = IF errno = 98 THEN "addr_in_use" ELSE "bind_error"]

\* mkdir, socket(), bind (with its one retry after makedirs on errno 2).
StartBind(p) ==
    /\ proc[p].pc = "s_bind"
    /\ LET e1 == BindErrno(proc[p].faults)
           left == FaultsLeft(proc[p].faults)
           e2 == BindErrno(left)
           r1 == [proc[p] EXCEPT !.faults = left]
           r2 == [proc[p] EXCEPT !.faults = FaultsLeft(left)]
       IN IF e1 = 0
          THEN /\ socket_file' = {p}
               /\ SetProc(p, Bound(r1, 1))
          ELSE IF ~RetriesBind(e1)
          THEN /\ SetProc(p, BindFailed(r1, 1, e1))
               /\ UNCHANGED socket_file
          ELSE IF e2 = 0
          THEN /\ socket_file' = {p}
               /\ SetProc(p, Bound(r2, 2))
          ELSE /\ SetProc(p, BindFailed(r2, 2, e2))
               /\ UNCHANGED socket_file
    /\ UNCHANGED <<pid_file, probes>>
    /\ UNCHANGED brokerVars

\* listen(10); atexit.register(cleanup); successfully_started = True.
StartListen(p) ==
    /\ proc[p].pc = "s_listen"
    /\ SetProc(p, [proc[p] EXCEPT !.pc = "s_pid_open",
                                  !.server_socket = "listening",
                                  !.successfully_started = TRUE])
    /\ UNCHANGED <<socket_file, pid_file, probes>>
    /\ UNCHANGED brokerVars

\* _write_pid_file: open(pid_file, "w") creates or truncates the marker.
WritePidOpen(p) ==
    /\ proc[p].pc = "s_pid_open"
    /\ pid_file' = <<<<>>>>
    /\ SetProc(p, [proc[p] EXCEPT !.pc = "s_pid_write", !.pid_fd = TRUE])
    /\ UNCHANGED <<socket_file, probes>>
    /\ UNCHANGED brokerVars

\* _write_pid_file: f.write(str(os.getpid())) reaches the file on close; it
\* reaches the path only if the inode was not unlinked meanwhile.
WritePidWrite(p) ==
    /\ proc[p].pc = "s_pid_write"
    /\ pid_file' = IF proc[p].pid_fd THEN <<DecimalText(p)>> ELSE pid_file
    /\ SetProc(p, [proc[p] EXCEPT !.pc = "s_popen",
                                  !.pid_fd = FALSE,
                                  !.wrote_pid = TRUE])
    /\ UNCHANGED <<socket_file, probes>>
    /\ UNCHANGED brokerVars

\* _create_cava_config and Popen(["cava", ...]).  FileNotFoundError: print,
\* sys.exit(1), intercepted by the finally clause.  Otherwise the threads
\* start and the signal handlers are installed.
StartPopen(p) ==
    /\ proc[p].pc = "s_popen"
    /\ \E cava_found \in BOOLEAN :
        SetProc(p, IF cava_found
                   THEN [proc[p] EXCEPT !.pc = "running", !.analyzer = TRUE]
                   ELSE [proc[p] EXCEPT !.pc = "c_guard",
                                        !.ctx = "finally",
                                        !.exit_why = "cava_missing"])
    /\ UNCHANGED <<socket_file, pid_file, probes>>
    /\ UNCHANGED brokerVars

\* SIGINT/SIGTERM reach a running broker: shutdown_handler sets the event,
\* joins the threads, stops the analyzer and calls cleanup().
Signal(p) ==
    /\ proc[p].pc = "running"
    /\ SetProc(p, [proc[p] EXCEPT !.pc = "c_guard",
                                  !.ctx = "handler",
                                  !.analyzer = FALSE,
                                  !.exit_why = "signal"])
    /\ UNCHANGED <<socket_file, pid_file, probes>>
    /\ UNCHANGED brokerVars

\* SIGKILL, or SIGTERM before the handlers are installed: the process dies
\* where it is and leaves its artifacts on disk.
Crash(p) ==
    /\ p \in Managers
    /\ proc[p].pc \in {"s_listen", "s_pid_open", "s_pid_write", "s_popen", "running"}
    /\ SetProc(p, [Exited(proc[p], 1, "killed") EXCEPT !.pc = "crashed"])
    /\ UNCHANGED <<socket_file, pid_file, probes>>
    /\ UNCHANGED brokerVars

\* A cleanup without its guard.
CleanupRunsAlways(r) == TRUE

(***************************************************************************)
(* CavaServer.cleanup, one step per system call, and the exit after it.    *)
(***************************************************************************)
\* The guard of cleanup(): the socket object is created before bind, so
\* (server_socket or cava_process) holds whenever successfully_started does.
CleanupRuns(r) == r.successfully_started /\ r.server_socket # "none"

\* owns_pid_file: the marker exists, parses, and holds os.getpid().
OwnsPidFile(marker, self) ==
    /\ marker # <<>>
    /\ ParsesAsInt(Strip(marker[1]))
    /\ DecimalValue(Strip(marker[1])) = self

\* A cleanup that removes the socket file whatever the marker says.
RemovesSocketAlways(owns, marker) == TRUE

\* if owns_pid_file or not os.path.exists(pid_file): os.remove(socket_file)
RemovesSocket(owns, marker) == owns \/ marker = <<>>

\* The exit after cleanup(): os._exit(0) at the end of shutdown_handler and
\* of start()'s finally clause; status 1 when the interpreter itself ends
\* the process on an exception that escaped (cleanup then ran from atexit).
ExitStatusAfterCleanup(ctx) == IF ctx = "atexit" THEN 1 ELSE 0

\* Who runs cleanup() again when os.remove(socket_file) raised in it:
\* out of shutdown_handler the exception reaches start()'s except clause
\* (sys.exit(1), then finally); out of finally it ends the interpreter,
\* which runs the atexit registration.
NextCleanupCtx(ctx) == IF ctx = "handler" THEN "finally" ELSE "atexit"

\* The guard; then the analyzer is stopped, the clients are closed and the
\* listening socket is closed.
CleanupGuard(p) ==
    /\ proc[p].pc = "c_guard"
    /\ SetProc(p, IF CleanupRuns(proc[p])
                  THEN [proc[p] EXCEPT !.pc = "c_sock_marker",
                                       !.server_socket = "closed",
                                       !.analyzer = FALSE]
                  ELSE [proc[p] EXCEPT !.pc = "c_exit"])
    /\ UNCHANGED <<socket_file, pid_file, probes>>
    /\ UNCHANGED brokerVars

\* if os.path.exists(socket_file): read the marker into owns_pid_file.
CleanupReadMarker(p) ==
    /\ proc[p].pc = "c_sock_marker"
    /\ SetProc(p, IF socket_file = {}
                  THEN [proc[p] EXCEPT !.pc = "c_pid_read"]
                  ELSE [proc[p] EXCEPT !.pc = "c_sock_rm",
                                       !.owns_pid_file = OwnsPidFile(pid_file, p)])
    /\ UNCHANGED <<socket_file, pid_file, probes>>
    /\ UNCHANGED brokerVars

\* The decision and os.remove(socket_file), which raises FileNotFoundError
\* when the file has vanished since the exists() test.
CleanupRemoveSocket(p) ==
    /\ proc[p].pc = "c_sock_rm"
    /\ IF ~RemovesSocket(proc[p].owns_pid_file, pid_file)
       THEN /\ SetProc(p, [proc[p] EXCEPT !.pc = "c_pid_read"])
            /\ UNCHANGED socket_file
       ELSE IF socket_file = {}
       THEN /\ SetProc(p, IF proc[p].ctx = "atexit"
                          THEN Exited(proc[p], 1, proc[p].exit_why)
                          ELSE [proc[p] EXCEPT !.pc = "c_guard",
                                               !.ctx = NextCleanupCtx(@)])
            /\ UNCHANGED socket_file
       ELSE /\ socket_file' = {}
            /\ SetProc(p, [proc[p] EXCEPT !.pc = "c_pid_read", !.rm_sock = TRUE])
    /\ UNCHANGED <<pid_file, probes>>
    /\ UNCHANGED brokerVars

\* if os.path.exists(pid_file): read it and compare with os.getpid().
CleanupReadPid(p) ==
    /\ proc[p].pc = "c_pid_read"
    /\ SetProc(p, IF OwnsPidFile(pid_file, p)
                  THEN [proc[p] EXCEPT !.pc = "c_pid_rm"]
                  ELSE [proc[p] EXCEPT !.pc = "c_exit"])
    /\ UNCHANGED <<socket_file, pid_file, probes>>
    /\ UNCHANGED brokerVars

\* os.remove(pid_file); FileNotFoundError is caught.
CleanupRemovePid(p) ==
    /\ proc[p].pc = "c_pid_rm"
    /\ pid_file' = <<>>
    /\ proc' = [q \in Procs |->
                  IF q = p THEN [Unlinked(p, proc[p]) EXCEPT !.pc = "c_exit",
                                                             !.rm_pid = TRUE]
                  ELSE Unlinked(q, proc[q])]
    /\ UNCHANGED <<socket_file, probes>>
    /\ UNCHANGED brokerVars

CleanupExit(p) ==
    /\ proc[p].pc = "c_exit"
    /\ SetProc(p, Exited(proc[p], ExitStatusAfterCleanup(proc[p].ctx),
                         proc[p].exit_why))
    /\ UNCHANGED <<socket_file, pid_file, probes>>
    /\ UNCHANGED brokerVars

Cleanup(p) ==
    \/ CleanupGuard(p)
    \/ CleanupReadMarker(p)
    \/ CleanupRemoveSocket(p)
    \/ CleanupReadPid(p)
    \/ CleanupRemovePid(p)
    \/ CleanupExit(p)

Start(p) ==
    \/ StartBind(p)
    \/ StartListen(p)
    \/ WritePidOpen(p)
    \/ WritePidWrite(p)
    \/ StartPopen(p)

RegNext ==
    \E p \in Procs :
        \/ QuickCheckRunning(p)
        \/ Start(p)
        \/ Cleanup(p)
        \/ Signal(p)
        \/ Crash(p)
        \/ Relaunch(p)

RegSpec == RegInit /\ [][RegNext]_vars

(***************************************************************************)
(* The liveness check alone: a status probe runs against artifacts that    *)
(* nothing else changes.  The broker is absent, has bound the socket and   *)
(* not yet called listen(), or is listening.                               *)
(***************************************************************************)
ProbeMarkers ==
    InitPidFiles \cup {<<<<"0">>>>, <<DecimalText(Broker)>>}

ProbeInit ==
    /\ \E b \in {"none", "bound", "listening"} :
          /\ socket_file \in (IF b = "none" THEN InitSocketFiles ELSE {{Broker}})
          /\ proc = [p \in Procs |->
                       IF p \in Probers THEN InitProc
                       ELSE IF p = Broker /\ b = "bound"
                       THEN [InitProc EXCEPT !.pc = "s_listen", !.binds = 1,
                                             !.server_socket = "bound"]
                       ELSE IF p = Broker /\ b = "listening"
                       THEN [InitProc EXCEPT !.pc = "s_pid_open", !.binds = 1,
                                             !.server_socket = "listening",
                                             !.successfully_started = TRUE]
                       ELSE Exited(InitProc, 0, "")]
    /\ pid_file \in ProbeMarkers
    /\ probes = 0
    /\ BrokerIdle
    /\ fmt = NoCall /\ res = NoCall /\ gen = NoCall /\ sub = NoCall

ProbeNext == \E p \in Probers : QuickCheckRunning(p)

ProbeSpec == ProbeInit /\ [][ProbeNext]_vars

(***************************************************************************)
(* Startup alone: the managers have passed main's liveness check on an     *)
(* empty directory and call start(), each with the bind errors the file    *)
(* system has in store for it.                                             *)
(***************************************************************************)
FaultSchedules == {<<>>, <<2>>, <<13>>, <<2, 13>>, <<2, 2>>}

StartInit ==
    /\ socket_file = {}
    /\ pid_file = <<>>
    /\ \E f \in [Managers -> FaultSchedules] :
          proc = [p \in Procs |->
                    IF p \in Managers
                    THEN [InitProc EXCEPT !.pc = "s_bind", !.faults = f[p]]
                    ELSE Exited(InitProc, 0, "")]
    /\ probes = 0
    /\ BrokerIdle
    /\ fmt = NoCall /\ res = NoCall /\ gen = NoCall /\ sub = NoCall

StartNext ==
    \E p \in Managers :
        \/ Start(p)
        \/ Cleanup(p)
        \/ Signal(p)

StartSpec == StartInit /\ [][StartNext]_vars

(***************************************************************************)
(* Broker layer: one broker whose start() has launched its threads.        *)
(***************************************************************************)
\* _create_cava_config: the parameters written to the analyzer's
\* configuration (no CAVA_* environment variable set).
CavaConfig(bars, range_val, channels, reverse) ==
    <<bars, range_val, channels, reverse>>

\* The arguments `cava.py manager --bars 8 --range 7 --channels mono
\* --reverse 1` passes to start().
ManagerArgs == <<8, 7, "mono", 1>>

\* The parameter defaults of _create_cava_config.
ConfigDefaults == <<16, 15, "stereo", 0>>

\* The reload sentinel b"CMD:RELOAD", and the chunks a peer may send: the
\* command line, another line, the command split over two chunks, the
\* command as the second line of a chunk, and the command line padded with
\* white space.
ReloadSentinel == <<"CMD:", "RELOAD">>

Chunks ==
    {<<"CMD:", "RELOAD", "\n">>, <<"x", "\n">>,
     <<"CMD:">>, <<"RELOAD", "\n">>,
     <<"x", "\n", "CMD:", "RELOAD", "\n">>,
     <<" ", "CMD:", "RELOAD", " ", "\n">>}

HasNewline(chunk) == \E i \in 1..Len(chunk) : chunk[i] = "\n"

\* chunk.split(b"\n", 1)[0]
FirstLine(chunk) ==
    LET n == CHOOSE i \in 1..Len(chunk) :
                 chunk[i] = "\n" /\ \A j \in 1..(i - 1) : chunk[j] # "\n"
    IN SubSeq(chunk, 1, n - 1)

\* A test that takes every chunk that begins with the command prefix.
IsReloadCommandLoose(chunk) ==
    LStrip(chunk) # <<>> /\ Head(LStrip(chunk)) = "CMD:"

\* if b"\n" in chunk: line = ...; if line.strip() == b"CMD:RELOAD"
IsReloadCommand(chunk) ==
    HasNewline(chunk) /\ Strip(FirstLine(chunk)) = ReloadSentinel

Range(seq) == {seq[i] : i \in 1..Len(seq)}

\* The analyzer behind the handle is running (poll() is None).
CavaRunning == cava_process # 0 /\ cava[cava_process] = "live"

\* terminate() and wait(), kill() after the timeout: the process behind the
\* handle is dead afterwards.
Stopped == IF CavaRunning THEN [cava EXCEPT ![cava_process] = "dead"] ELSE cava

BrokerUp == Alive(Broker)

\* The state in which start() has bound, listened, written the marker,
\* launched the analyzer and started its two threads.
BrokerInit ==
    /\ socket_file = {Broker}
    /\ pid_file = <<DecimalText(Broker)>>
    /\ proc = [p \in Procs |->
                 IF p = Broker
                 THEN [InitProc EXCEPT !.pc = "running",
                                       !.server_socket = "listening",
                                       !.successfully_started = TRUE,
                                       !.analyzer = TRUE,
                                       !.wrote_pid = TRUE]
                 ELSE Exited(InitProc, 0, "")]
    /\ probes = 0
    /\ clients = <<>>
    /\ clients_lock = "free"
    /\ cava_process = 1
    /\ should_shutdown = FALSE
    /\ shutdown_event = FALSE
    /\ config_file = CavaConfig(ManagerArgs[1], ManagerArgs[2],
                                ManagerArgs[3], ManagerArgs[4])
    /\ acc = [pc |-> "accept", conn |-> 0]
    /\ rdr = [pc |-> "select", line |-> 0]
    /\ lst = [c \in Conns |-> "none"]
    /\ launched = [c \in Conns |-> 0]
    /\ fmt = NoCall /\ res = NoCall /\ gen = NoCall /\ sub = NoCall
    /\ cava = <<"live">>
    /\ stdout = <<<<>>>>
    /\ emitted = 0
    /\ peer = [c \in Conns |-> "idle"]
    /\ srv = [c \in Conns |-> "none"]
    /\ inbox = [c \in Conns |-> <<>>]
    /\ sent = 0
    /\ recvd = [c \in Conns |-> <<>>]
    /\ signals = 0
    /\ registered = {}

(***************************************************************************)
(* The broker's environment: peers and analyzer processes.                 *)
(***************************************************************************)
\* A peer connects; the kernel queues it on the listening socket.
\* Connections are numbered in their order of arrival.
PeerConnect(c) ==
    /\ peer[c] = "idle"
    /\ \A d \in Conns : d < c => peer[d] # "idle"
    /\ BrokerUp /\ proc[Broker].server_socket = "listening"
    /\ peer' = [peer EXCEPT ![c] = "open"]
    /\ UNCHANGED <<callVars, regVars, serverVars, cava, stdout, emitted, srv, inbox,
                   sent, recvd, signals, registered>>

\* A connected peer sends a chunk.
PeerSend(c) ==
    /\ peer[c] = "open"
    /\ srv[c] # "closed"
    /\ sent < MaxChunks
    /\ \E chunk \in Chunks : inbox' = [inbox EXCEPT ![c] = Append(@, chunk)]
    /\ sent' = sent + 1
    /\ UNCHANGED <<callVars, regVars, serverVars, cava, stdout, emitted, peer, srv,
                   recvd, signals, registered>>

\* A connected peer closes its end (or its process dies).
PeerClose(c) ==
    /\ peer[c] = "open"
    /\ peer' = [peer EXCEPT ![c] = "closed"]
    /\ UNCHANGED <<callVars, regVars, serverVars, cava, stdout, emitted, srv, inbox,
                   sent, recvd, signals, registered>>

\* The connection of a liveness check (_quick_check_running): connect()
\* inside a `with` block that closes the socket at once.  The kernel
\* queues the connection on the listening socket all the same.
ProbeConnect(c) ==
    /\ peer[c] = "idle"
    /\ \A d \in Conns : d < c => peer[d] # "idle"
    /\ BrokerUp /\ proc[Broker].server_socket = "listening"
    /\ peer' = [peer EXCEPT ![c] = "closed"]
    /\ UNCHANGED <<callVars, regVars, serverVars, cava, stdout, emitted, srv, inbox,
                   sent, recvd, signals, registered>>

\* A running analyzer writes one line to its stdout.
CavaEmit(i) ==
    /\ cava[i] = "live"
    /\ emitted < MaxLines
    /\ emitted' = emitted + 1
    /\ stdout' = [stdout EXCEPT ![i] = Append(@, emitted + 1)]
    /\ UNCHANGED <<callVars, regVars, serverVars, cava, peer, srv, inbox, sent, recvd,
                   signals, registered>>

\* A running analyzer exits on its own (it crashes, is killed, loses its
\* audio source): its end of the pipe is closed, what it wrote stays
\* readable.
CavaExit(i) ==
    /\ cava[i] = "live"
    /\ cava' = [cava EXCEPT ![i] = "dead"]
    /\ UNCHANGED <<callVars, regVars, serverVars, stdout, emitted, peer, srv, inbox,
                   sent, recvd, signals, registered>>

(***************************************************************************)
(* The accept thread: start.handle_client_connections.                     *)
(***************************************************************************)
\* Connections queued on the listening socket, not yet accepted.
Backlog == {c \in Conns : peer[c] # "idle" /\ srv[c] = "none"}

\* One iteration: the loop test, accept() of the connection at the head of
\* the queue, and the start of the connection's command listener.  A
\* timeout of accept() repeats the loop.
AcceptLoop ==
    /\ BrokerUp
    /\ acc.pc = "accept"
    /\ IF shutdown_event \/ proc[Broker].server_socket # "listening"
       THEN /\ acc' = [pc |-> "done", conn |-> 0]
            /\ UNCHANGED <<srv, lst>>
       ELSE \E c \in Backlog :
            /\ \A d \in Backlog : c <= d
            /\ srv' = [srv EXCEPT ![c] = "open"]
            /\ lst' = [lst EXCEPT ![c] = "recv"]
            /\ acc' = [pc |-> "append", conn |-> c]
    /\ UNCHANGED <<callVars, regVars, clients, clients_lock, cava_process,
                   should_shutdown, shutdown_event, config_file, rdr,
                   launched, cava, stdout, emitted, peer, inbox, sent, recvd,
                   signals, registered>>

\* An accept thread that appends without taking clients_lock.
AcceptAppendUnlocked ==
    /\ BrokerUp
    /\ acc.pc = "append"
    /\ clients' = Append(clients, acc.conn)
    /\ registered' = registered \cup {acc.conn}
    /\ acc' = [pc |-> "accept", conn |-> 0]
    /\ UNCHANGED <<callVars, regVars, clients_lock, cava_process, should_shutdown,
                   shutdown_event, config_file, rdr, lst, launched, cava, stdout,
                   emitted, peer, srv, inbox, sent, recvd, signals>>

\* with self.clients_lock: self.clients.append(conn)
AcceptAppend ==
    /\ BrokerUp
    /\ acc.pc = "append"
    /\ clients_lock = "free"
    /\ clients' = Append(clients, acc.conn)
    /\ registered' = registered \cup {acc.conn}
    /\ acc' = [pc |-> "accept", conn |-> 0]
    /\ UNCHANGED <<callVars, regVars, clients_lock, cava_process, should_shutdown,
                   shutdown_event, config_file, rdr, lst, launched, cava, stdout,
                   emitted, peer, srv, inbox, sent, recvd, signals>>

(***************************************************************************)
(* The reader thread: start.read_cava_output and _broadcast_data.          *)
(***************************************************************************)
\* The clients to which sendall() raises whatever the timing: the peer has
\* closed its end, or the broker's end is already closed.
MustFail == {c \in Range(clients) : peer[c] = "closed" \/ srv[c] # "open"}

\* A broadcast that gives up at the first client whose send fails.
RECURSIVE DeliveredUntilFailure(_, _)
DeliveredUntilFailure(cl, failing) ==
    IF cl = <<>> \/ Head(cl) \in failing THEN {}
    ELSE {Head(cl)} \cup DeliveredUntilFailure(Tail(cl), failing)

\* The clients whose sendall() returned: every client is tried, a failure
\* only puts the client on disconnected_clients.
Delivered(cl, failing) == Range(cl) \ failing

\* The list after the removal loop over disconnected_clients.
Pruned(cl, failing) == SelectSeq(cl, LAMBDA c : c \notin failing)

\* if not self.clients and not self.should_shutdown
BeginsShutdown(cl, flag) == cl = <<>> /\ ~flag

\* One iteration: the loop test, select() and readline() on the current
\* handle's stdout.  End of file (the analyzer is dead and its pipe empty)
\* or a set shutdown_event ends the thread; a timeout repeats the loop.
ReaderRead ==
    /\ BrokerUp
    /\ rdr.pc = "select"
    /\ shutdown_event \/ stdout[cava_process] # <<>> \/ cava[cava_process] = "dead"
    /\ IF shutdown_event
       THEN /\ rdr' = [pc |-> "done", line |-> 0]
            /\ UNCHANGED stdout
       ELSE IF stdout[cava_process] # <<>>
       THEN /\ rdr' = [pc |-> "bcast", line |-> Head(stdout[cava_process])]
            /\ stdout' = [stdout EXCEPT ![cava_process] = Tail(@)]
       ELSE /\ rdr' = [pc |-> "done", line |-> 0]
            /\ UNCHANGED stdout
    /\ UNCHANGED <<callVars, regVars, clients, clients_lock, cava_process,
                   should_shutdown, shutdown_event, config_file, acc, lst, launched,
                   cava, emitted, peer, srv, inbox, sent, recvd, signals,
                   registered>>

\* _broadcast_data, run under clients_lock: the sends, the removal of the
\* clients whose send failed, and the test that begins self-termination.
\* A send to an open peer may fail too (timeout, reset).
ReaderBroadcast ==
    /\ BrokerUp
    /\ rdr.pc = "bcast"
    /\ clients_lock = "free"
    /\ \E failing \in SUBSET Range(clients) :
        /\ MustFail \subseteq failing
        /\ recvd' = [c \in Conns |->
                       IF c \in Delivered(clients, failing)
                       THEN Append(recvd[c], rdr.line) ELSE recvd[c]]
        /\ srv' = [c \in Conns |-> IF c \in failing THEN "closed" ELSE srv[c]]
        /\ clients' = Pruned(clients, failing)
        /\ IF BeginsShutdown(Pruned(clients, failing), should_shutdown)
           THEN /\ should_shutdown' = TRUE
                /\ cava' = Stopped
           ELSE UNCHANGED <<should_shutdown, cava>>
    /\ rdr' = [pc |-> "select", line |-> 0]
    /\ UNCHANGED <<callVars, regVars, clients_lock, cava_process, shutdown_event,
                   config_file, acc, lst, launched, stdout, emitted, peer, inbox, sent,
                   signals, registered>>

(***************************************************************************)
(* The per-connection thread: _client_command_listener, and                *)
(* _reload_cava_process which it calls.                                    *)
(***************************************************************************)
\* A listener that closes its connection when it ends.
ListenerRecvClosing(c) ==
    /\ BrokerUp
    /\ lst[c] = "recv"
    /\ IF srv[c] = "open" /\ inbox[c] # <<>>
       THEN /\ inbox' = [inbox EXCEPT ![c] = Tail(@)]
            /\ lst' = [lst EXCEPT ![c] =
                          IF IsReloadCommand(Head(inbox[c]))
                          THEN "reload_stop" ELSE "recv"]
            /\ UNCHANGED srv
       ELSE /\ lst' = [lst EXCEPT ![c] = "done"]
            /\ srv' = [srv EXCEPT ![c] = "closed"]
            /\ UNCHANGED inbox
    /\ UNCHANGED <<callVars, regVars, clients, clients_lock, cava_process,
                   should_shutdown, shutdown_event, config_file, acc, rdr,
                   launched, cava, stdout, emitted, peer, sent, recvd,
                   signals, registered>>

\* conn.recv(1024) with a timeout of 0.1 s.  The thread ends on an empty
\* read, on the timeout and on an error of the socket.
ListenerRecv(c) ==
    /\ BrokerUp
    /\ lst[c] = "recv"
    /\ IF srv[c] = "open" /\ inbox[c] # <<>>
       THEN /\ inbox' = [inbox EXCEPT ![c] = Tail(@)]
            /\ lst' = [lst EXCEPT ![c] =
                          IF IsReloadCommand(Head(inbox[c]))
                          THEN "reload_stop" ELSE "recv"]
       ELSE /\ lst' = [lst EXCEPT ![c] = "done"]
            /\ UNCHANGED inbox
    /\ UNCHANGED <<callVars, regVars, clients, clients_lock, cava_process,
                   should_shutdown, shutdown_event, config_file, acc, rdr,
                   launched, cava, stdout, emitted, peer, srv, sent, recvd,
                   signals, registered>>

\* _reload_cava_process: terminate the running analyzer and wait for it.
ReloadStop(c) ==
    /\ BrokerUp
    /\ lst[c] = "reload_stop"
    /\ cava' = Stopped
    /\ lst' = [lst EXCEPT ![c] = "reload_popen"]
    /\ UNCHANGED <<callVars, regVars, clients, clients_lock, cava_process,
                   should_shutdown, shutdown_event, config_file, acc, rdr,
                   launched, stdout, emitted, peer, srv, inbox, sent, recvd,
                   signals, registered>>

\* A reload that restarts the whole server side: it launches the analyzer
\* and drops the registered connections.
ReloadPopenDroppingClients(c) ==
    /\ BrokerUp
    /\ lst[c] = "reload_popen"
    /\ config_file' = CavaConfig(ConfigDefaults[1], ConfigDefaults[2],
                                 ConfigDefaults[3], ConfigDefaults[4])
    /\ cava' = Append(cava, "live")
    /\ stdout' = Append(stdout, <<>>)
    /\ launched' = [launched EXCEPT ![c] = Len(cava) + 1]
    /\ clients' = <<>>
    /\ lst' = [lst EXCEPT ![c] = "reload_store"]
    /\ UNCHANGED <<callVars, regVars, clients_lock, cava_process, should_shutdown,
                   shutdown_event, acc, rdr, emitted, peer, srv, inbox, sent,
                   recvd, signals, registered>>

\* _reload_cava_process: _create_cava_config() with its defaults, then
\* Popen, which returns once the new analyzer runs; FileNotFoundError is
\* printed and leaves the handle as it was.
ReloadPopen(c) ==
    /\ BrokerUp
    /\ lst[c] = "reload_popen"
    /\ config_file' = CavaConfig(ConfigDefaults[1], ConfigDefaults[2],
                                 ConfigDefaults[3], ConfigDefaults[4])
    /\ \E cava_found \in BOOLEAN :
        IF cava_found
        THEN /\ cava' = Append(cava, "live")
             /\ stdout' = Append(stdout, <<>>)
             /\ launched' = [launched EXCEPT ![c] = Len(cava) + 1]
             /\ lst' = [lst EXCEPT ![c] = "reload_store"]
        ELSE /\ lst' = [lst EXCEPT ![c] = "recv"]
             /\ UNCHANGED <<cava, stdout, launched>>
    /\ UNCHANGED <<callVars, regVars, clients, clients_lock, cava_process,
                   should_shutdown, shutdown_event, acc, rdr, emitted, peer,
                   srv, inbox, sent, recvd, signals, registered>>

\* _reload_cava_process: self.cava_process = <the Popen object>, the store
\* that follows Popen's return.
ReloadStore(c) ==
    /\ BrokerUp
    /\ lst[c] = "reload_store"
    /\ cava_process' = launched[c]
    /\ launched' = [launched EXCEPT ![c] = 0]
    /\ lst' = [lst EXCEPT ![c] = "recv"]
    /\ UNCHANGED <<callVars, regVars, clients, clients_lock, should_shutdown,
                   shutdown_event, config_file, acc, rdr, envVars>>

(***************************************************************************)
(* The main thread: the wait loop of start(), shutdown_handler, cleanup.   *)
(***************************************************************************)
SetMain(r) == proc' = [proc EXCEPT ![Broker] = r]

\* while not self.shutdown_event.is_set(): time.sleep(0.2); after the loop
\* the finally clause runs cleanup() and os._exit(0).
MainWait ==
    /\ proc[Broker].pc = "running"
    /\ IF shutdown_event
       THEN SetMain([proc[Broker] EXCEPT !.pc = "c_guard", !.ctx = "finally"])
       ELSE UNCHANGED proc
    /\ UNCHANGED <<socket_file, pid_file, probes, brokerVars>>

\* SIGINT or SIGTERM: Python runs shutdown_handler on the main thread, on
\* top of whatever the main thread is executing (the wait loop, or an
\* earlier shutdown_handler that has not reached os._exit yet; that one is
\* never resumed).  Its first statement sets shutdown_event.
BrokerSignal ==
    /\ BrokerUp
    /\ signals < MaxSignals
    /\ signals' = signals + 1
    /\ shutdown_event' = TRUE
    /\ SetMain([proc[Broker] EXCEPT !.pc = "h_join",
                                    !.ctx = "handler",
                                    !.exit_why = "signal"])
    /\ UNCHANGED <<callVars, socket_file, pid_file, probes, clients, clients_lock,
                   cava_process, should_shutdown, config_file, acc, rdr, lst, launched,
                   cava, stdout, emitted, peer, srv, inbox, sent, recvd,
                   registered>>

\* for t in threads: t.join(timeout=2): returns when the threads have ended
\* or when the timeouts have elapsed.
HandlerJoin ==
    /\ proc[Broker].pc = "h_join"
    /\ SetMain([proc[Broker] EXCEPT !.pc = "h_stop"])
    /\ UNCHANGED <<socket_file, pid_file, probes, brokerVars>>

\* shutdown_handler stops the analyzer: terminate, wait, kill on failure.
HandlerStop ==
    /\ proc[Broker].pc = "h_stop"
    /\ cava' = Stopped
    /\ SetMain([proc[Broker] EXCEPT !.pc = "c_guard"])
    /\ UNCHANGED <<callVars, socket_file, pid_file, probes, serverVars, stdout, emitted,
                   peer, srv, inbox, sent, recvd, signals, registered>>

\* cleanup(): the guard, and the analyzer is stopped if it is running.
BrokerCleanupGuard ==
    /\ BrokerUp
    /\ proc[Broker].pc = "c_guard"
    /\ IF CleanupRuns(proc[Broker])
       THEN /\ cava' = Stopped
            /\ SetMain([proc[Broker] EXCEPT !.pc = "c_lock", !.analyzer = FALSE])
       ELSE /\ SetMain([proc[Broker] EXCEPT !.pc = "c_exit"])
            /\ UNCHANGED cava
    /\ UNCHANGED <<callVars, socket_file, pid_file, probes, serverVars, stdout, emitted,
                   peer, srv, inbox, sent, recvd, signals, registered>>

\* cleanup(): with self.clients_lock -- a threading.Lock, which the main
\* thread cannot take twice.
BrokerCleanupLock ==
    /\ proc[Broker].pc = "c_lock"
    /\ clients_lock = "free"
    /\ clients_lock' = "main"
    /\ SetMain([proc[Broker] EXCEPT !.pc = "c_close"])
    /\ UNCHANGED <<callVars, socket_file, pid_file, probes, clients, cava_process,
                   should_shutdown, shutdown_event, config_file, acc, rdr, lst, launched,
                   envVars>>

\* cleanup(): close every client and clear the list, leave the with block,
\* close the listening socket.
BrokerCleanupClose ==
    /\ proc[Broker].pc = "c_close"
    /\ srv' = [c \in Conns |-> IF c \in Range(clients) THEN "closed" ELSE srv[c]]
    /\ clients' = <<>>
    /\ clients_lock' = "free"
    /\ SetMain([proc[Broker] EXCEPT !.pc = "c_sock_marker",
                                    !.server_socket = "closed"])
    /\ UNCHANGED <<callVars, socket_file, pid_file, probes, cava_process,
                   should_shutdown, shutdown_event, config_file, acc, rdr, lst, launched,
                   cava, stdout, emitted, peer, inbox, sent, recvd, signals,
                   registered>>

\* os._exit(0) (or the interpreter's exit): the process and its threads are
\* gone and the kernel closes its sockets; a running analyzer is not
\* stopped by it.
BrokerExit ==
    /\ proc[Broker].pc = "c_exit"
    /\ SetMain(Exited(proc[Broker], ExitStatusAfterCleanup(proc[Broker].ctx),
                      proc[Broker].exit_why))
    /\ srv' = [c \in Conns |-> IF srv[c] = "none" THEN "none" ELSE "closed"]
    /\ clients' = <<>>
    /\ clients_lock' = "free"
    /\ acc' = [pc |-> "done", conn |-> 0]
    /\ rdr' = [pc |-> "done", line |-> 0]
    /\ lst' = [c \in Conns |-> IF lst[c] = "none" THEN "none" ELSE "done"]
    /\ launched' = [c \in Conns |-> 0]
    /\ UNCHANGED <<callVars, socket_file, pid_file, probes, cava_process,
                   should_shutdown, shutdown_event, config_file, cava, stdout,
                   emitted, peer, inbox, sent, recvd, signals, registered>>

MainThread ==
    \/ MainWait
    \/ BrokerSignal
    \/ HandlerJoin
    \/ HandlerStop
    \/ BrokerCleanupGuard
    \/ BrokerCleanupLock
    \/ BrokerCleanupClose
    \/ CleanupReadMarker(Broker)
    \/ CleanupRemoveSocket(Broker)
    \/ CleanupReadPid(Broker)
    \/ CleanupRemovePid(Broker)
    \/ BrokerExit

Peers ==
    \E c \in Conns : PeerConnect(c) \/ PeerSend(c) \/ PeerClose(c)

Analyzers ==
    \E i \in 1..Len(cava) : CavaEmit(i)

AcceptThread == AcceptLoop \/ AcceptAppend

ReaderThread == ReaderRead \/ ReaderBroadcast

ListenerThreads ==
    \E c \in Conns :
        ListenerRecv(c) \/ ReloadStop(c) \/ ReloadPopen(c) \/ ReloadStore(c)

Next ==
    \/ Peers
    \/ Analyzers
    \/ AcceptThread
    \/ ReaderThread
    \/ ListenerThreads
    \/ MainThread

Spec == BrokerInit /\ [][Next]_vars

(***************************************************************************)
(* The broker with part of its environment silent.  Every behaviour of     *)
(* these is a behaviour of Spec.                                           *)
(***************************************************************************)
\* Subscribers come and go and the analyzer emits; no peer sends a
\* command and no signal arrives.
BroadcastNext ==
    \/ \E c \in Conns : PeerConnect(c) \/ PeerClose(c) \/ ListenerRecv(c)
    \/ Analyzers
    \/ AcceptThread
    \/ ReaderThread
    \/ MainWait

BroadcastSpec == BrokerInit /\ [][BroadcastNext]_vars

\* Peers connect and send commands; no signal arrives.
ReloadNext ==
    \/ Peers
    \/ Analyzers
    \/ AcceptThread
    \/ ReaderThread
    \/ ListenerThreads
    \/ MainWait

ReloadSpec == BrokerInit /\ [][ReloadNext]_vars

\* Signals arrive while subscribers connect and the analyzer emits; no
\* peer sends a command.
ShutdownNext ==
    \/ \E c \in Conns : PeerConnect(c) \/ PeerClose(c) \/ ListenerRecv(c)
    \/ Analyzers
    \/ AcceptThread
    \/ ReaderThread
    \/ MainThread

ShutdownSpec == BrokerInit /\ [][ShutdownNext]_vars

\* The command listeners alone with the peers and the accept thread: the
\* threads that take part in handling a reload command.
ReloadFrameNext == Peers \/ AcceptThread \/ ListenerThreads \/ MainWait

ReloadFrameSpec == BrokerInit /\ [][ReloadFrameNext]_vars

\* The three threads that touch the subscriber set (accept thread, reader,
\* main thread with its signal handler and cleanup); peers connect and stay.
LockNext ==
    \/ \E c \in Conns : PeerConnect(c)
    \/ Analyzers
    \/ AcceptThread
    \/ ReaderThread
    \/ MainThread

LockSpec == BrokerInit /\ [][LockNext]_vars

\* BroadcastSpec with every thread of the broker scheduled fairly (the
\* interpreter switches threads every few milliseconds); the peers and the
\* analyzer owe nothing.
FairBroadcastSpec ==
    /\ BroadcastSpec
    /\ WF_vars(AcceptThread)
    /\ WF_vars(ReaderThread)
    /\ WF_vars(MainWait)
    /\ \A c \in Conns : WF_vars(ListenerRecv(c))

\* ReloadFrameSpec with the broker's threads scheduled fairly; the peers
\* owe nothing.
FairReloadFrameSpec ==
    /\ ReloadFrameSpec
    /\ WF_vars(AcceptThread)
    /\ WF_vars(MainWait)
    /\ \A c \in Conns :
          WF_vars(ListenerRecv(c) \/ ReloadStop(c) \/ ReloadPopen(c)
                    \/ ReloadStore(c))

\* The main thread without the arrival of a signal: the steps the
\* interpreter takes by itself once it is scheduled.
MainThreadRuns ==
    \/ MainWait
    \/ HandlerJoin
    \/ HandlerStop
    \/ BrokerCleanupGuard
    \/ BrokerCleanupLock
    \/ BrokerCleanupClose
    \/ CleanupReadMarker(Broker)
    \/ CleanupRemoveSocket(Broker)
    \/ CleanupReadPid(Broker)
    \/ CleanupRemovePid(Broker)
    \/ BrokerExit

\* ShutdownSpec with the broker's threads scheduled fairly; the peers,
\* the analyzer and the sender of signals owe nothing.
FairShutdownSpec ==
    /\ ShutdownSpec
    /\ WF_vars(AcceptThread)
    /\ WF_vars(ReaderThread)
    /\ WF_vars(MainThreadRuns)
    /\ \A c \in Conns : WF_vars(ListenerRecv(c))

\* Subscribers connect and stay, liveness checks connect and close at
\* once, the analyzer emits; no peer sends a command and no signal
\* arrives.  A connection whose peer has closed is a liveness check's.
ProbedNext ==
    \/ \E c \in Conns : PeerConnect(c) \/ ProbeConnect(c) \/ ListenerRecv(c)
    \/ Analyzers
    \/ AcceptThread
    \/ ReaderThread
    \/ MainWait

ProbedSpec == BrokerInit /\ [][ProbedNext]_vars

\* Subscribers come and go while the analyzer emits and may exit on its
\* own; no peer sends a command and no signal arrives.
AnalyzerExitNext ==
    \/ \E c \in Conns : PeerConnect(c) \/ PeerClose(c) \/ ListenerRecv(c)
    \/ \E i \in 1..Len(cava) : CavaEmit(i) \/ CavaExit(i)
    \/ AcceptThread
    \/ ReaderThread
    \/ MainWait

AnalyzerExitSpec == BrokerInit /\ [][AnalyzerExitNext]_vars

\* AnalyzerExitSpec with the broker's threads scheduled fairly; the peers
\* and the analyzer owe nothing.
FairAnalyzerExitSpec ==
    /\ AnalyzerExitSpec
    /\ WF_vars(AcceptThread)
    /\ WF_vars(ReaderThread)
    /\ WF_vars(MainWait)
    /\ \A c \in Conns : WF_vars(ListenerRecv(c))

\* Peers connect, stay and send commands while the analyzers emit; no
\* signal arrives.
FeedNext ==
    \/ \E c \in Conns : PeerConnect(c) \/ PeerSend(c)
    \/ Analyzers
    \/ AcceptThread
    \/ ReaderThread
    \/ ListenerThreads
    \/ MainWait

FeedSpec == BrokerInit /\ [][FeedNext]_vars

\* FeedSpec with the broker's threads scheduled fairly; the peers and the
\* analyzers owe nothing.
FairFeedSpec ==
    /\ FeedSpec
    /\ WF_vars(AcceptThread)
    /\ WF_vars(ReaderThread)
    /\ WF_vars(MainWait)
    /\ \A c \in Conns :
          WF_vars(ListenerRecv(c) \/ ReloadStop(c) \/ ReloadPopen(c)
                    \/ ReloadStore(c))

(***************************************************************************)
(* Frame formatter: CavaDataParser.format_data and _handle_standby_mode.   *)
(* A string is the sequence of its characters; "L1".."L8" stand for the    *)
(* eight block glyphs U+2581..U+2588, "sup2" for U+00B2, "LRM" for U+200E. *)
(***************************************************************************)
\* The items of a line and the display widths that are tried.
MaxItems == 4
MaxWidth == 5

\* Characters for which str.isdigit() is true and int() raises ValueError.
OtherDigits == {"sup2"}

\* x.isdigit()
IsDigitStr(x) ==
    /\ x # <<>>
    /\ \A i \in 1..Len(x) : IsDigit(x[i]) \/ x[i] \in OtherDigits

\* int(x) raises ValueError, for an x that passed isdigit().
IntRaises(x) == \E i \in 1..Len(x) : x[i] \in OtherDigits

\* s.split(sep)
RECURSIVE Split(_, _)
Split(s, sep) ==
    IF \A i \in 1..Len(s) : s[i] # sep THEN <<s>>
    ELSE LET k == CHOOSE i \in 1..Len(s) :
                      s[i] = sep /\ \A j \in 1..(i - 1) : s[j] # sep
         IN <<SubSeq(s, 1, k - 1)>> \o Split(SubSeq(s, k + 1, Len(s)), sep)

\* A conversion that drops the fraction instead of rounding.
RoundDown(p, q) == p \div q

\* round(p / q) for p >= 0, q > 0: Python rounds a half to the even integer.
RoundHalfEven(p, q) ==
    LET f == p \div q
        r == p % q
    IN IF 2 * r < q THEN f
       ELSE IF 2 * r > q THEN f + 1
       ELSE IF f % 2 = 0 THEN f ELSE f + 1

Min(a, b) == IF a <= b THEN a ELSE b

\* A resampling that takes the sample at floor(i * len / width), without
\* interpolation.
ExpandedValueTruncating(values, width, i) ==
    values[((i * Len(values)) \div width) + 1]

\* The value appended for target index i (from 0): the sample at
\* left_idx, or the interpolation between left_idx and right_idx, rounded.
\* original_pos = num / den; the position is 0 when width = 1.
ExpandedValue(values, width, i) ==
    LET num == IF width > 1 THEN i * (Len(values) - 1) ELSE 0
        den == IF width > 1 THEN width - 1 ELSE 1
        left_idx == num \div den
        right_idx == Min(left_idx + 1, Len(values) - 1)
        lv == values[left_idx + 1]
        rv == values[right_idx + 1]
    IN IF left_idx = right_idx THEN lv
       ELSE RoundHalfEven(lv * den + (rv - lv) * (num % den), den)

\* A formatter that never resamples.
ResampleNever(values, width) == values

\* if len(values) != width: the loop that builds expanded_values.
Resample(values, width) ==
    IF Len(values) # width
    THEN [k \in 1..width |-> ExpandedValue(values, width, k - 1)]
    ELSE values

\* A glyph selection that wraps around instead of saturating.
GlyphIndexWrapping(value, bar_length) == value % bar_length

\* if value >= bar_length: char_index = bar_length - 1 else: value
GlyphIndex(value, bar_length) ==
    IF value >= bar_length THEN bar_length - 1 ELSE value

Returned(text) == [pc |-> "returned", out |-> text]

\* bar_chars[...] on an empty glyph sequence raises IndexError.
Raised == [pc |-> "raised", out |-> <<>>]

Repeat(glyph, n) == [i \in 1..n |-> glyph]

\* str(n) for an integer.
StrOfInt(n) == IF n < 0 THEN <<"-">> \o DecimalText(0 - n) ELSE DecimalText(n)

\* The placeholder of standby mode 1: LEFT-TO-RIGHT MARK and a space.
Placeholder == <<"LRM", " ">>

\* A standby policy is a string (isstr, text) or a number (num).
StrPolicy(text) == [isstr |-> TRUE, text |-> text, num |-> 0]
NumPolicy(n) == [isstr |-> FALSE, text |-> <<>>, num |-> n]

\* A standby rendering that takes the first glyph for mode 2 and the last
\* for mode 3.
handle_standby_mode_swapped(standby_mode, bar_chars, width) ==
    IF standby_mode.isstr THEN Returned(standby_mode.text)
    ELSE IF standby_mode.num = 0 THEN Returned(<<>>)
    ELSE IF standby_mode.num = 1 THEN Returned(Placeholder)
    ELSE IF standby_mode.num \in {2, 3}
    THEN IF bar_chars = <<>> THEN Raised
         ELSE Returned(Repeat(IF standby_mode.num = 3
                              THEN bar_chars[Len(bar_chars)] ELSE bar_chars[1],
                              IF width # 0 THEN width ELSE Len(bar_chars)))
    ELSE Returned(StrOfInt(standby_mode.num))

\* _handle_standby_mode; a width of None or 0 counts as len(bar_chars).
handle_standby_mode(standby_mode, bar_chars, width) ==
    IF standby_mode.isstr THEN Returned(standby_mode.text)
    ELSE IF standby_mode.num = 0 THEN Returned(<<>>)
    ELSE IF standby_mode.num = 1 THEN Returned(Placeholder)
    ELSE IF standby_mode.num \in {2, 3}
    THEN IF bar_chars = <<>> THEN Raised
         ELSE Returned(Repeat(IF standby_mode.num = 2
                              THEN bar_chars[Len(bar_chars)] ELSE bar_chars[1],
                              IF width # 0 THEN width ELSE Len(bar_chars)))
    ELSE Returned(StrOfInt(standby_mode.num))

\* The loop over values: result += bar_chars[char_index].
Render(values, bar_chars) ==
    IF values # <<>> /\ bar_chars = <<>> THEN Raised
    ELSE Returned([i \in 1..Len(values) |->
                      bar_chars[GlyphIndex(values[i], Len(bar_chars)) + 1]])

\* format_data; a width of None or 0 counts as len(values).
format_data(line, bar_chars, width, standby_mode) ==
    LET stripped == Strip(line)
        items == SelectSeq(Split(stripped, ";"), IsDigitStr)
        values == [i \in 1..Len(items) |-> DecimalValue(items[i])]
        standby == handle_standby_mode(standby_mode, bar_chars, width)
    IN IF stripped = <<>> THEN standby
       ELSE IF \E i \in 1..Len(items) : IntRaises(items[i]) THEN standby
       ELSE IF values = <<>> \/ \A i \in 1..Len(values) : values[i] = 0
       THEN standby
       ELSE Render(Resample(values, IF width # 0 THEN width ELSE Len(values)),
                   bar_chars)

\* ";".join(items)
RECURSIVE Join(_)
Join(items) ==
    IF items = <<>> THEN <<>>
    ELSE IF Len(items) = 1 THEN items[1]
    ELSE items[1] \o <<";">> \o Join(Tail(items))

\* The items a line is made of: samples, a non-numeric item, and an item
\* that isdigit() accepts and int() rejects.
ItemTexts ==
    {<<"0">>, <<"5">>, <<"1", "0">>, <<"1", "5">>, <<"x">>, <<"sup2">>}

ItemSeqs == UNION {[1..n -> ItemTexts] : n \in 0..MaxItems}

\* The lines given to format_data: items joined by ";", and the short ones
\* also with surrounding white space.
Lines ==
    {Join(items) : items \in ItemSeqs}
    \cup {<<" ">> \o Join(items) \o <<" ", "\n">> :
             items \in {q \in ItemSeqs : Len(q) <= 1}}

\* The default of bar_chars and its prefixes of one and four glyphs.
DefaultBarChars == <<"L1", "L2", "L3", "L4", "L5", "L6", "L7", "L8">>

GlyphSets == {SubSeq(DefaultBarChars, 1, g) : g \in {1, 4, 8}}

Idle == <<"I", "D", "L", "E">>

\* The policies tried with format_data, and with _handle_standby_mode.
FormatPolicies == {NumPolicy(0), NumPolicy(2)}

StandbyPolicies ==
    {StrPolicy(<<>>), StrPolicy(Idle)}
    \cup {NumPolicy(n) : n \in {0 - 1, 0, 1, 2, 3, 4, 12}}

\* No process runs and no broker exists.
SystemIdle ==
    /\ socket_file = {}
    /\ pid_file = <<>>
    /\ proc = [p \in Procs |-> Exited(InitProc, 0, "")]
    /\ probes = 0
    /\ BrokerIdle

FormatCalls ==
    [pc : {"call"}, fn : {"format_data"}, line : Lines, bar_chars : GlyphSets,
     width : 0..MaxWidth, standby_mode : FormatPolicies, out : {<<>>}]

StandbyCalls ==
    [pc : {"call"}, fn : {"_handle_standby_mode"}, line : {<<>>},
     bar_chars : GlyphSets, width : 0..MaxWidth,
     standby_mode : StandbyPolicies, out : {<<>>}]

FormatInit ==
    /\ SystemIdle
    /\ fmt \in FormatCalls \cup StandbyCalls
    /\ res = NoCall /\ gen = NoCall /\ sub = NoCall

\* The call of format_data returns (or raises).
FormatData ==
    /\ fmt.pc = "call"
    /\ fmt.fn = "format_data"
    /\ LET r == format_data(fmt.line, fmt.bar_chars, fmt.width,
                            fmt.standby_mode)
       IN fmt' = [fmt EXCEPT !.pc = r.pc, !.out = r.out]
    /\ UNCHANGED <<sysVars, res, gen, sub>>

\* The call of _handle_standby_mode returns (or raises).
HandleStandbyMode ==
    /\ fmt.pc = "call"
    /\ fmt.fn = "_handle_standby_mode"
    /\ LET r == handle_standby_mode(fmt.standby_mode, fmt.bar_chars, fmt.width)
       IN fmt' = [fmt EXCEPT !.pc = r.pc, !.out = r.out]
    /\ UNCHANGED <<sysVars, res, gen, sub>>

FormatNext == FormatData \/ HandleStandbyMode

FormatSpec == FormatInit /\ [][FormatNext]_vars

(***************************************************************************)
(* The subscriber's display settings: CavaWaybarClient.start.              *)
(* An optional value is <<>> (absent, None) or <<v>>.                      *)
(***************************************************************************)
\* The namespace argparse builds for `cava.py waybar`: --bar defaults to
\* the eight glyphs, --stb to the number 0, --bar-array and --width to
\* None; a given --stb is a string.  The attribute of --bar-array is
\* bar_array.
WaybarArgs(cli) ==
    [command |-> <<"waybar">>,
     bar |-> IF cli.bar = <<>> THEN <<DefaultBarChars>> ELSE cli.bar,
     bar_array |-> cli.bar_array,
     width |-> cli.width,
     stb |-> IF cli.stb = <<>> THEN <<NumPolicy(0)>>
             ELSE <<StrPolicy(cli.stb[1])>>,
     json |-> <<FALSE>>]

\* _get_config_value: the attribute of args when args has it and it is not
\* None, otherwise config.get(key, default).
get_config_value(args, config, key, default) ==
    IF key \in DOMAIN args /\ args[key] # <<>> THEN args[key]
    ELSE IF key \in DOMAIN config /\ config[key] # <<>> THEN config[key]
    ELSE default

\* The settings start() resolves from args and the host configuration.
ResolveDisplay(args, config) ==
    LET bar == get_config_value(args, config, "bar", <<DefaultBarChars>>)
        arr == get_config_value(args, config, "bar-array", <<>>)
        bar_chars == IF arr # <<>> /\ arr[1] # <<>> THEN arr[1] ELSE bar[1]
        width == get_config_value(args, config, "width", <<>>)
        stb == get_config_value(args, config, "stb", <<NumPolicy(0)>>)[1]
    IN [bar |-> bar[1],
        bar_array |-> arr,
        bar_chars |-> bar_chars,
        width |-> IF width # <<>> THEN width[1]
                  ELSE IF bar_chars # <<>> THEN Len(bar_chars) ELSE 8,
        standby_mode |-> IF stb.isstr /\ ParsesAsInt(stb.text)
                         THEN NumPolicy(DecimalValue(stb.text)) ELSE stb]

\* What the host configuration and the command line may supply.
HostConfig(bar, bar_array, width, stb) ==
    [key \in {"bar", "bar-array", "width", "stb"} |->
        CASE key = "bar" -> bar
          [] key = "bar-array" -> bar_array
          [] key = "width" -> width
          [] key = "stb" -> stb]

HostConfigs ==
    {HostConfig(bar, bar_array, width, stb) :
        bar \in {<<>>, <<SubSeq(DefaultBarChars, 1, 4)>>},
        bar_array \in {<<>>, <<<<"a1", "a2", "a3">>>>},
        width \in {<<>>, <<3>>},
        stb \in {<<>>, <<NumPolicy(2)>>, <<StrPolicy(Idle)>>}}

CommandLines ==
    [bar : {<<>>, <<SubSeq(DefaultBarChars, 7, 8)>>},
     bar_array : {<<>>, <<<<"b1", "b2">>>>},
     width : {<<>>, <<5>>},
     stb : {<<>>, <<<<"3">>>>, <<<<"o", "f", "f">>>>}]

ResolveInit ==
    /\ SystemIdle
    /\ fmt = NoCall /\ gen = NoCall /\ sub = NoCall
    /\ res \in [pc : {"start"}, config : HostConfigs, cli : CommandLines,
                 out : {<<>>}]

\* start() up to the resolution of standby_mode.
ResolveSettings ==
    /\ res.pc = "start"
    /\ res' = [res EXCEPT
                  !.pc = "resolved",
                  !.out = <<ResolveDisplay(WaybarArgs(res.cli), res.config)>>]
    /\ UNCHANGED <<sysVars, fmt, gen, sub>>

ResolveNext == ResolveSettings

ResolveSpec == ResolveInit /\ [][ResolveNext]_vars

(***************************************************************************)
(* The analyzer's configuration: _create_cava_config as start() calls it.  *)
(***************************************************************************)
\* str.lower() on the letters that occur.
LowerChar(c) ==
    CASE c = "Y" -> "y" [] c = "E" -> "e" [] c = "S" -> "s"
      [] c = "O" -> "o" [] c = "N" -> "n" [] OTHER -> c

Lower(s) == [i \in 1..Len(s) |-> LowerChar(s[i])]

\* The arguments main passes to start(): the option when given, otherwise
\* argparse's default (16, 15, "stereo", 0).
ManagerArgsOf(cli) ==
    [bars |-> IF cli.bars # <<>> THEN cli.bars[1] ELSE ConfigDefaults[1],
     range_val |-> IF cli.range_val # <<>> THEN cli.range_val[1]
                   ELSE ConfigDefaults[2],
     channels |-> IF cli.channels # <<>> THEN cli.channels[1]
                  ELSE ConfigDefaults[3],
     reverse |-> IF cli.reverse # <<>> THEN cli.reverse[1]
                 ELSE ConfigDefaults[4]]

\* int(text) raises ValueError (int() strips white space first).
IntFails(text) == ~ParsesAsInt(Strip(text))

\* reverse = os.getenv("CAVA_REVERSE", reverse); int(reverse), or 1 for
\* true/yes/on and 0 otherwise when int() raises.
ReverseOf(envtext, reverse) ==
    IF envtext = <<>> THEN reverse
    ELSE IF ~IntFails(envtext[1]) THEN DecimalValue(Strip(envtext[1]))
    ELSE IF Lower(envtext[1]) \in {<<"t", "r", "u", "e">>, <<"y", "e", "s">>,
                                   <<"o", "n">>}
    THEN 1 ELSE 0

\* A configuration writer that lets an argument that differs from the
\* default win over the environment.
create_cava_config_args_first(env, bars, range_val, channels, reverse) ==
    IF env.CAVA_BARS # <<>> /\ IntFails(env.CAVA_BARS[1])
    THEN [pc |-> "raised", out |-> <<>>]
    ELSE IF env.CAVA_RANGE # <<>> /\ IntFails(env.CAVA_RANGE[1])
    THEN [pc |-> "raised", out |-> <<>>]
    ELSE [pc |-> "written",
          out |-> CavaConfig(
              IF env.CAVA_BARS # <<>> /\ bars = ConfigDefaults[1]
              THEN DecimalValue(Strip(env.CAVA_BARS[1])) ELSE bars,
              IF env.CAVA_RANGE # <<>> /\ range_val = ConfigDefaults[2]
              THEN DecimalValue(Strip(env.CAVA_RANGE[1])) ELSE range_val,
              IF env.CAVA_CHANNELS # <<>> /\ channels = ConfigDefaults[3]
              THEN env.CAVA_CHANNELS[1] ELSE channels,
              IF reverse = ConfigDefaults[4]
              THEN ReverseOf(env.CAVA_REVERSE, reverse) ELSE reverse)]

\* _create_cava_config: each CAVA_* variable that is set replaces the
\* argument; int() of a CAVA_BARS or CAVA_RANGE that is not a number raises
\* ValueError before anything is written.
create_cava_config(env, bars, range_val, channels, reverse) ==
    IF env.CAVA_BARS # <<>> /\ IntFails(env.CAVA_BARS[1])
    THEN [pc |-> "raised", out |-> <<>>]
    ELSE IF env.CAVA_RANGE # <<>> /\ IntFails(env.CAVA_RANGE[1])
    THEN [pc |-> "raised", out |-> <<>>]
    ELSE [pc |-> "written",
          out |-> CavaConfig(
              IF env.CAVA_BARS # <<>>
              THEN DecimalValue(Strip(env.CAVA_BARS[1])) ELSE bars,
              IF env.CAVA_RANGE # <<>>
              THEN DecimalValue(Strip(env.CAVA_RANGE[1])) ELSE range_val,
              IF env.CAVA_CHANNELS # <<>> THEN env.CAVA_CHANNELS[1]
              ELSE channels,
              ReverseOf(env.CAVA_REVERSE, reverse))]

\* What the command line and the environment may supply.
ManagerCommandLines ==
    [bars : {<<>>, <<ManagerArgs[1]>>},
     range_val : {<<>>, <<ManagerArgs[2]>>},
     channels : {<<>>, <<ManagerArgs[3]>>},
     reverse : {<<>>, <<ManagerArgs[4]>>}]

Environments ==
    [CAVA_BARS : {<<>>, <<<<"3", "2">>>>, <<<<"x">>>>},
     CAVA_RANGE : {<<>>, <<<<" ", "9">>>>},
     CAVA_CHANNELS : {<<>>, <<"left">>},
     CAVA_REVERSE : {<<>>, <<<<"0">>>>, <<<<"Y", "e", "s">>>>, <<<<"x">>>>}]

GenInit ==
    /\ SystemIdle
    /\ fmt = NoCall /\ res = NoCall /\ sub = NoCall
    /\ gen \in [pc : {"call"}, cli : ManagerCommandLines, env : Environments,
                 out : {<<>>}]

\* start() calls self._create_cava_config(bars, range_val, channels, reverse).
CreateCavaConfig ==
    /\ gen.pc = "call"
    /\ LET a == ManagerArgsOf(gen.cli)
           r == create_cava_config(gen.env, a.bars, a.range_val, a.channels,
                                   a.reverse)
       IN gen' = [gen EXCEPT !.pc = r.pc, !.out = r.out]
    /\ UNCHANGED <<sysVars, fmt, res, sub>>

GenNext == CreateCavaConfig

GenSpec == GenInit /\ [][GenNext]_vars

(***************************************************************************)
(* One subscriber session: CavaWaybarClient.start from the connect on.     *)
(* A record is what one print(json.dumps(output)) writes.                  *)
(***************************************************************************)
\* The lines a broker may send in one session.
MaxSubLines == 2

Record(tooltip, text) == [tooltip |-> tooltip, text |-> text]

\* A subscriber that prints no record on connect.
InitialOutputNever(standby_output) == <<>>

\* if standby_output: print(json.dumps({"text": standby_output, ...}))
InitialOutput(standby_output) ==
    IF standby_output # <<>> THEN <<Record("standby", standby_output)>>
    ELSE <<>>

\* buffer.split("\n", 1)[1]
AfterFirstLine(buffer) ==
    SubSeq(buffer, Len(FirstLine(buffer)) + 2, Len(buffer))

\* while "\n" in buffer: the complete lines are formatted and a record is
\* printed for each non-empty result; an exception of format_data leaves
\* start() through its finally clause.
RECURSIVE Drain(_, _, _)
Drain(buffer, out, s) ==
    IF ~HasNewline(buffer)
    THEN [pc |-> "recv", buffer |-> buffer, out |-> out]
    ELSE LET line == FirstLine(buffer)
             rest == AfterFirstLine(buffer)
             r == format_data(line, s.bar_chars, s.width, s.standby_mode)
         IN IF Strip(line) = <<>> THEN Drain(rest, out, s)
            ELSE IF r.pc = "raised"
            THEN [pc |-> "raised", buffer |-> rest, out |-> out]
            ELSE Drain(rest,
                       IF r.out # <<>> THEN Append(out, Record("active", r.out))
                       ELSE out,
                       s)

\* The chunks recv() may return for a byte stream: every way of cutting it.
RECURSIVE Splits(_)
Splits(stream) ==
    IF stream = <<>> THEN {<<>>}
    ELSE UNION {{<<SubSeq(stream, 1, k)>> \o rest :
                    rest \in Splits(SubSeq(stream, k + 1, Len(stream)))} :
                k \in 1..Len(stream)}

\* The lines a broker forwards, each with its newline.
SubLines == {<<"1", "\n">>, <<"2", "\n">>, <<"0", "\n">>}

RECURSIVE Concat(_)
Concat(seqs) == IF seqs = <<>> THEN <<>> ELSE Head(seqs) \o Concat(Tail(seqs))

Streams == {Concat(ls) : ls \in UNION {[1..n -> SubLines] : n \in 0..MaxSubLines}}

Wires == UNION {Splits(stream) : stream \in Streams}

\* The display settings of the session: the default glyphs at width 1, or
\* an empty glyph string (width 8).
SubSettings ==
    {[bar_chars |-> DefaultBarChars, width |-> 1],
     [bar_chars |-> <<>>, width |-> 8]}

SubPolicies ==
    {NumPolicy(0), NumPolicy(1), NumPolicy(2), StrPolicy(Idle), StrPolicy(<<>>)}

SubInit ==
    /\ SystemIdle
    /\ fmt = NoCall /\ res = NoCall /\ gen = NoCall
    /\ \E s \in SubSettings : \E policy \in SubPolicies : \E wire \in Wires :
          sub = [pc |-> "connect",
                 bar_chars |-> s.bar_chars,
                 width |-> s.width,
                 standby_mode |-> policy,
                 stream |-> Concat(wire),
                 wire |-> wire,
                 buffer |-> <<>>,
                 out |-> <<>>]

\* client_socket.connect(); then the standby record.  A refused connection
\* prints an error and exits with status 1.
SubConnect ==
    /\ sub.pc = "connect"
    /\ \E connected \in BOOLEAN :
        LET r == handle_standby_mode(sub.standby_mode, sub.bar_chars, sub.width)
        IN sub' = IF ~connected THEN [sub EXCEPT !.pc = "refused"]
                  ELSE IF r.pc = "raised" THEN [sub EXCEPT !.pc = "raised"]
                  ELSE [sub EXCEPT !.pc = "recv", !.out = InitialOutput(r.out)]
    /\ UNCHANGED <<sysVars, fmt, res, gen>>

\* One iteration of the receive loop: recv(1024); an empty read ends the
\* session; a chunk that is not all white space is appended to the buffer
\* and the complete lines of the buffer are formatted and printed.
SubRecv ==
    /\ sub.pc = "recv"
    /\ IF sub.wire = <<>>
       THEN sub' = [sub EXCEPT !.pc = "done"]
       ELSE LET data == Head(sub.wire)
                buffer == IF Strip(data) # <<>> THEN sub.buffer \o data
                          ELSE sub.buffer
                d == Drain(buffer, sub.out, sub)
            IN sub' = [sub EXCEPT !.pc = d.pc, !.buffer = d.buffer,
                                  !.out = d.out, !.wire = Tail(sub.wire)]
    /\ UNCHANGED <<sysVars, fmt, res, gen>>

SubNext == SubConnect \/ SubRecv

SubSpec == SubInit /\ [][SubNext]_vars

(***************************************************************************)
(* Claims about the broker layer.                                          *)
(***************************************************************************)
\* C2: once a broadcast pass has left the subscriber set empty and set the
\* shutdown flag, the broker process eventually exits (its loops observe
\* the shutdown and stop, cleanup runs).
C2_SelfTerminationCompletes == should_shutdown ~> ~BrokerUp

\* C3: the broker begins self-termination only after a subscriber has been
\* registered, and not while an accepted connection is still waiting to be
\* added to the set.
C3_ShutdownOnlyAfterSubscriber ==
    [][(~should_shutdown /\ should_shutdown')
          => (registered # {} /\ acc.pc # "append")]_vars

\* The step is a whole broadcast pass.
BroadcastPass == rdr.pc = "bcast" /\ rdr'.pc = "select"

\* C4: in every broadcast pass each subscriber whose send succeeds gets the
\* line and stays registered, each subscriber whose send fails (always so
\* when its peer has closed) is closed and removed in that pass without
\* getting the line, and the pass begins shutdown only if it leaves the set
\* empty.
C4_BroadcastPass ==
    [][BroadcastPass =>
        /\ \A c \in Range(clients) :
              /\ srv'[c] \in {"open", "closed"}
              /\ srv'[c] = "open" =>
                    /\ recvd'[c] = Append(recvd[c], rdr.line)
                    /\ c \in Range(clients')
              /\ srv'[c] = "closed" =>
                    /\ recvd'[c] = recvd[c]
                    /\ c \notin Range(clients')
              /\ peer[c] = "closed" => srv'[c] = "closed"
        /\ Range(clients') \subseteq Range(clients)
        /\ (~should_shutdown /\ should_shutdown') => clients' = <<>>
        /\ (clients' # <<>>) => UNCHANGED <<should_shutdown, cava>>]_vars

\* Of two registered subscribers one has been pruned by a pass that
\* delivered the line to the other, and the broker has not begun shutdown.
C4_Witness ==
    \E a \in Conns : \E b \in Conns :
        /\ a # b
        /\ {a, b} \subseteq registered
        /\ a \in Range(clients) /\ recvd[a] # <<>>
        /\ srv[b] = "closed" /\ Len(recvd[b]) < Len(recvd[a])
        /\ ~should_shutdown

\* The step belongs to _reload_cava_process, run by some listener.
ReloadStep ==
    \E c \in Conns :
        /\ lst[c] \in {"reload_stop", "reload_popen", "reload_store"}
        /\ lst'[c] # lst[c]

\* C5: handling a reload changes only the analyzer (its process, the
\* handle, the pipe) and the generated configuration: the broker process,
\* its listening socket, the socket file, the pid marker, the subscriber
\* set and the connections are as they were.
C5_ReloadFrame ==
    [][ReloadStep =>
        /\ BrokerUp'
        /\ UNCHANGED <<proc, socket_file, pid_file>>
        /\ UNCHANGED <<clients, srv, recvd, should_shutdown, shutdown_event>>]_vars

\* A reload has relaunched the analyzer of a broker with a subscriber.
C5_Witness ==
    /\ Len(cava) > 1
    /\ CavaRunning
    /\ clients # <<>>
    /\ BrokerUp /\ proc[Broker].server_socket = "listening"
    /\ \A c \in Conns :
          lst[c] \notin {"reload_stop", "reload_popen", "reload_store"}

\* The analyzer processes that are running.
LiveAnalyzers == {i \in 1..Len(cava) : cava[i] = "live"}

\* C6: a broker has at most one live analyzer, and it is the one its
\* handle refers to (or the one a reload has just launched and is about to
\* store in the handle).
C6_OneAnalyzer ==
    /\ Cardinality(LiveAnalyzers) <= 1
    /\ \A i \in LiveAnalyzers :
          i = cava_process \/ \E c \in Conns : launched[c] = i

\* C9: cleanup may be invoked again while it is in progress (a second
\* signal during the first handler's cleanup) without deadlock: the main
\* thread never waits for clients_lock while it is the holder.
C9_CleanupReentrant ==
    ~(proc[Broker].pc = "c_lock" /\ clients_lock = "main")

\* No analyzer runs, no connection and no listening socket is open on the
\* broker's side, and neither the socket file nor a marker with the
\* broker's pid is on disk.
AllReleased ==
    /\ \A i \in 1..Len(cava) : cava[i] # "live"
    /\ \A c \in Conns : srv[c] # "open"
    /\ proc[Broker].server_socket = "closed"
    /\ Broker \notin socket_file
    /\ ~OwnsPidFile(pid_file, Broker)

\* C29: a broker that has received SIGINT or SIGTERM eventually exits, and
\* once it has exited its analyzer is dead, its connections and listening
\* socket are closed, and its socket file and pid marker are gone.
C29_SignalShutsDown ==
    /\ (signals > 0) ~> ~BrokerUp
    /\ []((signals > 0 /\ ~BrokerUp) => AllReleased)

\* The command listener of connection c ends in this step, in a broker
\* that goes on running.
ListenerEnds(c) == lst[c] = "recv" /\ lst'[c] = "done" /\ BrokerUp'

\* c is registered, the broker's end of it is open and its listener has
\* ended.
Unlistened(c) ==
    /\ lst[c] = "done"
    /\ srv[c] = "open"
    /\ c \in Range(clients)

\* C30: the end of a command listener changes neither the subscriber set
\* nor the connection (it stays open on the broker's side, and what it has
\* received is as it was); and a broadcast pass delivers its line to every
\* registered connection whose listener has ended and that stays
\* registered.
C30_ListenerEndFrame ==
    /\ [][\A c \in Conns : ListenerEnds(c) =>
            /\ UNCHANGED <<clients, srv, recvd, registered>>
            /\ UNCHANGED <<proc, should_shutdown, shutdown_event>>]_vars
    /\ [][BroadcastPass =>
            \A c \in Conns :
                (Unlistened(c) /\ c \in Range(clients'))
                    => recvd'[c] = Append(recvd[c], rdr.line)]_vars

\* A connection that never sent anything is registered and open after its
\* listener has ended, has received a line, and the reader is about to
\* broadcast the next one to it.
C30_Witness ==
    \E c \in Conns :
        /\ Unlistened(c)
        /\ peer[c] = "open"
        /\ sent = 0
        /\ recvd[c] # <<>>
        /\ rdr.pc = "bcast"

\* The bytes hold a complete line that is exactly the reload sentinel.
RECURSIVE HasExactReloadLine(_)
HasExactReloadLine(bytes) ==
    /\ HasNewline(bytes)
    /\ \/ FirstLine(bytes) = ReloadSentinel
       \/ HasExactReloadLine(SubSeq(bytes, Len(FirstLine(bytes)) + 2,
                                    Len(bytes)))

\* The listener of c takes a chunk off its connection in this step.
ReadsChunk(c) ==
    /\ lst[c] = "recv"
    /\ inbox[c] # <<>>
    /\ inbox'[c] = Tail(inbox[c])

\* The listener of c enters _reload_cava_process in this step.
ReloadBegins(c) == lst[c] = "recv" /\ lst'[c] = "reload_stop"

\* The analyzer, the handle or the generated configuration changes.
AnalyzerChanges ==
    cava' # cava \/ cava_process' # cava_process \/ config_file' # config_file

\* A chunk that is not taken as a command changes nothing in the broker
\* but the connection's queue of unread data; and the analyzer changes
\* only in a reload, when self-termination begins, or in a step of the main
\* thread (shutdown).
InputOtherwiseIgnored ==
    /\ [][\A c \in Conns : (ReadsChunk(c) /\ ~ReloadBegins(c)) =>
            /\ lst'[c] = "recv"
            /\ UNCHANGED <<regVars, clients, clients_lock, cava_process,
                           should_shutdown, shutdown_event, config_file,
                           acc, rdr, launched>>
            /\ UNCHANGED <<cava, stdout, srv, recvd, registered>>]_vars
    /\ [][AnalyzerChanges =>
            \/ ReloadStep
            \/ ~should_shutdown /\ should_shutdown'
            \/ proc'[Broker] # proc[Broker]]_vars

\* C31: a listener enters a reload only on reading data that holds a line
\* equal to CMD:RELOAD; any other data changes nothing in the broker, and
\* the analyzer changes only by a reload, self-termination or shutdown.
C31_OnlyExactReloadLine ==
    /\ [][\A c \in Conns :
            ReloadBegins(c) => HasExactReloadLine(Head(inbox[c]))]_vars
    /\ InputOtherwiseIgnored

\* C31, amended: a listener enters a reload only on reading a chunk whose
\* first line equals CMD:RELOAD once leading and trailing white space is
\* stripped; any other data changes nothing in the broker, and the analyzer
\* changes only by a reload, self-termination or shutdown.
C31_OnlyStrippedReloadLine ==
    /\ [][\A c \in Conns :
            ReloadBegins(c) =>
                /\ HasNewline(Head(inbox[c]))
                /\ Strip(FirstLine(Head(inbox[c]))) = ReloadSentinel]_vars
    /\ InputOtherwiseIgnored

\* One listener has read every chunk that was sent, none of them a
\* command, and the analyzer launched at startup still runs.
C31_Witness ==
    \E c \in Conns :
        /\ sent = MaxChunks
        /\ \A d \in Conns : inbox[d] = <<>> /\ (d # c => peer[d] = "idle")
        /\ lst[c] = "recv"
        /\ cava = <<"live">>
        /\ cava_process = 1

\* The reader thread has left its loop although neither self-termination
\* nor a shutdown has begun: it read the end of the analyzer's output.
ReaderStoppedOnItsOwn ==
    /\ rdr.pc = "done"
    /\ ~should_shutdown
    /\ ~shutdown_event

\* C35: once the reader has stopped because the analyzer ended on its own,
\* the broker eventually stops accepting connections and exits.
C35_NoBrokerWithoutFeed ==
    ReaderStoppedOnItsOwn
        ~> (~BrokerUp /\ proc[Broker].server_socket # "listening")

\* The connections of liveness checks that are in the subscriber set.
RegisteredProbes == {c \in Range(clients) : peer[c] = "closed"}

\* C36: the connection of a liveness check is never in the subscriber set
\* of the broker it probes, and self-termination never begins in a
\* broadcast pass that removes such a connection from the set.
C36_ProbeNotRegistered ==
    /\ [](RegisteredProbes = {})
    /\ [][(~should_shutdown /\ should_shutdown')
             => RegisteredProbes = {}]_vars

\* The configuration start() generated from the manager's arguments.
StartupConfig ==
    CavaConfig(ManagerArgs[1], ManagerArgs[2], ManagerArgs[3], ManagerArgs[4])

\* C37: the generated configuration always carries the bar count, range,
\* channel mode and reverse flag of the configuration generated at
\* startup, also after a reload has regenerated it.
C37_ReloadKeepsConfig == config_file = StartupConfig

\* The step is the body of cleanup's `with self.clients_lock` block, run by
\* the main thread, which holds the lock.
CleanupClearsUnderLock ==
    /\ clients_lock = "main"
    /\ proc[Broker].pc = "c_close"
    /\ proc'[Broker].pc = "c_sock_marker"

\* C11: every step of a running broker that changes the subscriber set
\* (append on accept, removal after a failed send, clear in cleanup) and
\* every broadcast pass over it is taken by the thread that holds
\* clients_lock: the accept thread and the reader act only when no other
\* thread holds it, and while cleanup holds it only cleanup touches the set.
C11_ClientsOnlyUnderLock ==
    [][((clients' # clients /\ BrokerUp') \/ BroadcastPass)
          => (clients_lock = "free" \/ CleanupClearsUnderLock)]_vars

\* Cleanup holds the lock over a non-empty subscriber set while the accept
\* thread waits to append and the reader waits to broadcast.
C11_Witness ==
    /\ clients_lock = "main"
    /\ clients # <<>>
    /\ acc.pc = "append"
    /\ rdr.pc = "bcast"

\* seq is strictly increasing: lines are numbered in emission order, so an
\* increasing sequence is a subsequence of the emitted lines with no line
\* twice and none out of order.
InEmissionOrder(seq) ==
    /\ \A i \in 1..Len(seq) : seq[i] \in 1..emitted
    /\ \A i \in 1..Len(seq) : \A j \in 1..Len(seq) : i < j => seq[i] < seq[j]

\* C12: the lines delivered to a subscriber are lines the analyzer emitted,
\* in emission order, none twice; a broadcast pass appends its line to
\* every subscriber that stays registered, and no other step changes what
\* a subscriber has received.
C12_OrderedDelivery ==
    /\ [](\A c \in Conns : InEmissionOrder(recvd[c]))
    /\ [][/\ BroadcastPass =>
               \A c \in Range(clients) \cap Range(clients') :
                   recvd'[c] = Append(recvd[c], rdr.line)
          /\ ~BroadcastPass => recvd' = recvd]_vars

\* The bytes hold a complete line that is the reload sentinel.
RECURSIVE HasReloadLine(_)
HasReloadLine(bytes) ==
    /\ HasNewline(bytes)
    /\ \/ Strip(FirstLine(bytes)) = ReloadSentinel
       \/ HasReloadLine(SubSeq(bytes, Len(FirstLine(bytes)) + 2, Len(bytes)))

RECURSIVE Flat(_)
Flat(chunks) == IF chunks = <<>> THEN <<>> ELSE Head(chunks) \o Flat(Tail(chunks))

\* A peer has sent, on an open connection to the running broker, bytes
\* that hold the line CMD:RELOAD and that the broker has not read yet.
ReloadSent(c) ==
    /\ BrokerUp
    /\ peer[c] = "open"
    /\ srv[c] = "open"
    /\ HasReloadLine(Flat(inbox[c]))

\* The connection's listener is in _reload_cava_process.
Reloading(c) == lst[c] \in {"reload_stop", "reload_popen", "reload_store"}

\* C22: whenever a client has sent the line CMD:RELOAD on an open
\* connection to a running broker, whenever after connecting it does so
\* and however the bytes are split into chunks, the broker eventually
\* begins to restart the analyzer.
C22_ReloadAlwaysHandled ==
    \A c \in Conns : ReloadSent(c) ~> (Reloading(c) \/ ~BrokerUp)

\* A reload found no analyzer binary: the step of ReloadPopen that leaves
\* everything but the configuration as it was.
ReloadFails ==
    \E c \in Conns : lst[c] = "reload_popen" /\ lst'[c] = "recv"

\* The broker runs without a feed after a reload that found no analyzer:
\* its handle refers to a stopped analyzer and no reload is in progress.
NoFeed ==
    /\ BrokerUp /\ proc[Broker].pc = "running"
    /\ ~should_shutdown
    /\ cava_process # 0 /\ cava[cava_process] = "dead"
    /\ LiveAnalyzers = {}
    /\ \A c \in Conns : ~Reloading(c)

\* Line n is in the pipe of the analyzer the handle refers to, and c is a
\* registered subscriber with an open connection.
Fed(c, n) ==
    /\ BrokerUp /\ proc[Broker].pc = "running"
    /\ CavaRunning
    /\ n \in Range(stdout[cava_process])
    /\ c \in Range(clients)
    /\ peer[c] = "open" /\ srv[c] = "open"

\* Line n has reached c, or something else than the feed ended the wait
\* (c left the set, the analyzer was replaced or stopped again, shutdown).
Served(c, n) ==
    \/ n \in Range(recvd[c])
    \/ c \notin Range(clients)
    \/ ~CavaRunning
    \/ should_shutdown
    \/ ~BrokerUp

\* C23: a reload that finds no analyzer binary leaves the broker running
\* with its listening socket and its subscriber set as they were; and once
\* the broker has been without a feed for that reason, the lines of the
\* analyzer a later reload launches reach the subscribers.
C23_FeedResumesAfterFailedReload ==
    /\ [][ReloadFails =>
            /\ BrokerUp' /\ proc'[Broker].server_socket = "listening"
            /\ UNCHANGED <<clients, srv, recvd, socket_file, pid_file>>]_vars
    /\ \A c \in Conns : \A n \in 1..MaxLines :
          [](NoFeed => [](Fed(c, n) => <>Served(c, n)))

\* The reader thread leaves its loop.
ReaderEnds == rdr.pc = "select" /\ rdr'.pc = "done"

\* C25: after a reload has launched a new analyzer while a subscriber is
\* registered, every line the new analyzer emits is eventually broadcast to
\* the registered subscribers: the reader does not leave its loop on the
\* old analyzer's end of file, and reads the new analyzer's output.
C25_ReaderSurvivesReload ==
    /\ [][(ReaderEnds /\ clients # <<>>)
             => (shutdown_event \/ should_shutdown)]_vars
    /\ \A c \in Conns : \A n \in 1..MaxLines :
          (Fed(c, n) /\ cava_process > 1) ~> Served(c, n)

(***************************************************************************)
(* Claims about the frame formatter.                                       *)
(***************************************************************************)
\* A call of fn has returned or raised.
Done(fn) == fmt.pc \in {"returned", "raised"} /\ fmt.fn = fn

\* The items of the line that are non-negative integers, and their values.
Samples(line) ==
    LET items == SelectSeq(Split(Strip(line), ";"), ParsesAsInt)
    IN [i \in 1..Len(items) |-> DecimalValue(items[i])]

\* Every item of the line is a non-negative integer.
WellFormed(line) ==
    LET items == Split(Strip(line), ";")
    IN \A i \in 1..Len(items) : ParsesAsInt(items[i])

AllZero(values) == \A i \in 1..Len(values) : values[i] = 0

\* A line of samples that is not rendered as standby.
DataLine(line) == WellFormed(line) /\ ~AllZero(Samples(line))

\* The glyph the claims assign to a sample value.
GlyphOf(v, bar_chars) == bar_chars[Min(v, Len(bar_chars) - 1) + 1]

\* C13: for a line of N >= 1 samples (not all zero) and a width W >= 1,
\* format_data returns exactly W glyphs, each from the glyph set.
C13_ExactlyWidthGlyphs ==
    (Done("format_data") /\ DataLine(fmt.line) /\ fmt.width >= 1)
        => /\ fmt.pc = "returned"
           /\ Len(fmt.out) = fmt.width
           /\ \A i \in 1..Len(fmt.out) : fmt.out[i] \in Range(fmt.bar_chars)

\* Three samples were rendered at a different width with several glyphs.
C13_Witness ==
    /\ Done("format_data") /\ DataLine(fmt.line)
    /\ Len(Samples(fmt.line)) = 3
    /\ fmt.width = MaxWidth
    /\ Cardinality(Range(fmt.out)) >= 3

\* The standby rendering for the call's policy, glyphs and width.
StandbyText ==
    handle_standby_mode(fmt.standby_mode, fmt.bar_chars, fmt.width).out

\* The rendering of the given samples at the call's width and glyphs.
DataText(values) ==
    LET w == IF fmt.width # 0 THEN fmt.width ELSE Len(values)
    IN [k \in 1..w |->
           GlyphOf(Resample(values, w)[k], fmt.bar_chars)]

\* C14: format_data never raises; for a line that is empty, has no item
\* that is a non-negative integer, or whose samples are all zero, it
\* returns the standby rendering; otherwise the items that are not
\* non-negative integers are skipped and the result is the rendering of
\* the remaining samples.
C14_StandbyOrSkip ==
    Done("format_data")
        => /\ fmt.pc = "returned"
           /\ LET values == Samples(fmt.line)
              IN IF values = <<>> \/ AllZero(values)
                 THEN fmt.out = StandbyText
                 ELSE fmt.out = DataText(values)

Abs(x) == IF x < 0 THEN 0 - x ELSE x

\* Target index i (from 0) of w lies at position num / den of the samples
\* (position 0 when w = 1), between the samples lv and rv; the linear
\* interpolation between them there is x / den.
Bracket(values, w, i) ==
    LET num == IF w > 1 THEN i * (Len(values) - 1) ELSE 0
        den == IF w > 1 THEN w - 1 ELSE 1
        left == num \div den
        right == Min(left + 1, Len(values) - 1)
        lv == values[left + 1]
        rv == values[right + 1]
    IN [den |-> den, lv |-> lv, rv |-> rv,
        x |-> lv * den + (rv - lv) * (num % den)]

\* v is an integer nearest to b.x / b.den that lies between the two
\* bracketing samples.
NearestInBracket(v, b) ==
    /\ 2 * Abs(v * b.den - b.x) <= b.den
    /\ Min(b.lv, b.rv) <= v
    /\ v <= b.lv + b.rv - Min(b.lv, b.rv)

\* C33: with N samples and width W, N # W, glyph i of the result is the
\* glyph of an integer nearest to the linear interpolation between the two
\* samples that bracket position i * (N - 1) / (W - 1) (position 0 when
\* W = 1), an integer between those two samples; with N = W (or no width)
\* glyph i is the glyph of sample i.
C33_InterpolatedNearest ==
    (Done("format_data") /\ DataLine(fmt.line)) =>
        LET values == Samples(fmt.line)
            w == IF fmt.width # 0 THEN fmt.width ELSE Len(values)
        IN /\ fmt.pc = "returned"
           /\ Len(fmt.out) = w
           /\ \A k \in 1..w :
                 IF Len(values) = w
                 THEN fmt.out[k] = GlyphOf(values[k], fmt.bar_chars)
                 ELSE LET b == Bracket(values, w, k - 1)
                      IN \E v \in Min(b.lv, b.rv)..(b.lv + b.rv) :
                            /\ NearestInBracket(v, b)
                            /\ fmt.out[k] = GlyphOf(v, fmt.bar_chars)

\* The samples 0 and 5 were rendered at width 5 with eight glyphs: the
\* interpolations 0, 1.25, 2.5, 3.75 and 5 gave the glyphs of 0, 1, 2, 4, 5.
C33_Witness ==
    /\ Done("format_data")
    /\ Samples(fmt.line) = <<0, 5>>
    /\ fmt.width = 5
    /\ fmt.bar_chars = DefaultBarChars
    /\ fmt.out = <<"L1", "L2", "L3", "L5", "L6">>

\* The policy is the number n.
IsNum(n) ==~fmt.standby_mode.isstr /\ fmt.standby_mode.num = n

\* C15: the standby rendering is the policy string verbatim; "" for 0; the
\* placeholder for 1; the last glyph width times for 2; the first glyph
\* width times for 3 (width >= 1); the decimal form of any other number.
\* An empty line with policy 2, eight glyphs and width 5 gives five copies
\* of the last glyph.
C15_StandbyByPolicy ==
    /\ Done("_handle_standby_mode") =>
          /\ fmt.pc = "returned"
          /\ fmt.standby_mode.isstr => fmt.out = fmt.standby_mode.text
          /\ IsNum(0) => fmt.out = <<>>
          /\ IsNum(1) => fmt.out = <<"LRM", " ">>
          /\ (IsNum(2) /\ fmt.width >= 1) =>
                /\ Len(fmt.out) = fmt.width
                /\ \A i \in 1..fmt.width :
                      fmt.out[i] = fmt.bar_chars[Len(fmt.bar_chars)]
          /\ (IsNum(3) /\ fmt.width >= 1) =>
                /\ Len(fmt.out) = fmt.width
                /\ \A i \in 1..fmt.width : fmt.out[i] = fmt.bar_chars[1]
          /\ IsNum(4) => fmt.out = <<"4">>
          /\ IsNum(12) => fmt.out = <<"1", "2">>
          /\ IsNum(0 - 1) => fmt.out = <<"-", "1">>
    /\ (/\ Done("format_data") /\ fmt.line = <<>> /\ IsNum(2)
        /\ fmt.bar_chars = DefaultBarChars /\ fmt.width = 5)
          => fmt.out = <<"L8", "L8", "L8", "L8", "L8">>

\* The standby rendering of policy 2 at width 5 was computed for the
\* default glyphs.
C15_Witness ==
    /\ Done("_handle_standby_mode")
    /\ IsNum(2) /\ fmt.width = 5 /\ fmt.bar_chars = DefaultBarChars
    /\ fmt.out = <<"L8", "L8", "L8", "L8", "L8">>

\* The first and the last glyph of the output are those of the first and
\* of the last sample.
EndpointsKept ==
    LET values == Samples(fmt.line)
    IN /\ fmt.pc = "returned" /\ fmt.out # <<>>
       /\ fmt.out[1] = GlyphOf(values[1], fmt.bar_chars)
       /\ fmt.out[Len(fmt.out)] = GlyphOf(values[Len(values)], fmt.bar_chars)

\* C16 as stated: for every line of samples that is not standby and every
\* width W >= 1, W = 1 included, the first and last output glyphs are
\* those of the first and last sample.
C16_EndpointsKept ==
    (Done("format_data") /\ DataLine(fmt.line) /\ fmt.width >= 1)
        => EndpointsKept

\* C16 amended: the same for W >= 2, and for W = 1 when N = 1; for W = 1
\* and N > 1 the single output glyph is that of the first sample.
C16_EndpointsKeptFromWidthTwo ==
    (Done("format_data") /\ DataLine(fmt.line) /\ fmt.width >= 1)
        => IF fmt.width >= 2 \/ Len(Samples(fmt.line)) = 1
           THEN EndpointsKept
           ELSE /\ fmt.pc = "returned"
                /\ fmt.out = <<GlyphOf(Samples(fmt.line)[1], fmt.bar_chars)>>

\* Samples whose first and last glyphs differ were resampled to another
\* width of at least 2.
C16_Witness ==
    /\ Done("format_data") /\ DataLine(fmt.line)
    /\ fmt.width >= 2 /\ Len(Samples(fmt.line)) > fmt.width
    /\ fmt.out[1] # fmt.out[Len(fmt.out)]
    /\ EndpointsKept

\* The values format_data maps to glyphs in this call.
MappedValues ==
    LET values == Samples(fmt.line)
    IN Resample(values, IF fmt.width # 0 THEN fmt.width ELSE Len(values))

\* C17: for every value v mapped to a glyph and every glyph sequence of
\* length G, the glyph used is the one at index min(v, G-1), which lies in
\* [0, G-1]: values >= G take the last glyph and no call raises.
C17_GlyphIndexClamped ==
    (Done("format_data") /\ DataLine(fmt.line))
        => /\ fmt.pc = "returned"
           /\ Len(fmt.out) = Len(MappedValues)
           /\ \A i \in 1..Len(MappedValues) :
                 LET v == MappedValues[i]
                     G == Len(fmt.bar_chars)
                     idx == IF v < G - 1 THEN v ELSE G - 1
                 IN /\ idx \in 0..(G - 1)
                    /\ fmt.out[i] = fmt.bar_chars[idx + 1]
                    /\ v >= G => fmt.out[i] = fmt.bar_chars[G]

\* A call mapped a value above the glyph count and a value below it.
C17_Witness ==
    /\ Done("format_data") /\ DataLine(fmt.line)
    /\ Len(fmt.bar_chars) = 8
    /\ \E i \in 1..Len(MappedValues) : MappedValues[i] > 8
    /\ \E i \in 1..Len(MappedValues) : MappedValues[i] \in 1..6

\* The call of the scenario: "0;5;10;15", the four glyphs, width 4.
ScenarioCall ==
    /\ Done("format_data")
    /\ fmt.line = <<"0", ";", "5", ";", "1", "0", ";", "1", "5">>
    /\ fmt.bar_chars = <<"L1", "L2", "L3", "L4">>
    /\ fmt.width = 4

\* C18 as stated: the scenario returns the four glyphs in order (indices
\* 0, 1, 2, 3).
C18_ScenarioInOrder ==
    ScenarioCall => fmt.pc = "returned" /\ fmt.out = <<"L1", "L2", "L3", "L4">>

\* C18 amended: the scenario returns the first glyph followed by three
\* copies of the last (indices 0, 3, 3, 3: 5, 10 and 15 saturate).
C18_ScenarioSaturates ==
    ScenarioCall => fmt.pc = "returned" /\ fmt.out = <<"L1", "L4", "L4", "L4">>

\* The scenario's call has returned.
C18_Witness == ScenarioCall /\ fmt.pc = "returned" /\ Len(fmt.out) = 4

(***************************************************************************)
(* Claims about the configuration layers.                                  *)
(***************************************************************************)
\* The value of the first layer that supplies one.
Layered(first, second, default) ==
    IF first # <<>> THEN first[1]
    ELSE IF second # <<>> THEN second[1]
    ELSE default

\* A standby policy given as text: a number when the text is one.
PolicyOfText(text) ==
    IF ParsesAsInt(text) THEN NumPolicy(DecimalValue(text)) ELSE StrPolicy(text)

\* C19: each display setting (glyphs, glyph array, width, standby policy)
\* resolves to the host configuration's value when it supplies the key,
\* otherwise to the command-line argument when given, otherwise to the
\* built-in default.
C19_HostThenCliThenDefault ==
    res.pc = "resolved" =>
        LET r == res.out[1]
            cli == res.cli
            host == res.config
        IN /\ r.bar = Layered(host["bar"], cli.bar, DefaultBarChars)
           /\ r.bar_array =
                 (IF host["bar-array"] # <<>> THEN host["bar-array"]
                  ELSE cli.bar_array)
           /\ r.width = Layered(host["width"], cli.width, Len(r.bar_chars))
           /\ r.standby_mode =
                 Layered(host["stb"],
                         IF cli.stb = <<>> THEN <<>>
                         ELSE <<PolicyOfText(cli.stb[1])>>,
                         NumPolicy(0))

\* The value a CAVA_* variable stands for, as an optional value.
EnvInt(envtext) ==
    IF envtext = <<>> THEN <<>> ELSE <<DecimalValue(Strip(envtext[1]))>>

EnvReverse(envtext) ==
    IF envtext = <<>> THEN <<>> ELSE <<ReverseOf(envtext, 0)>>

\* C20: each analyzer parameter written to the generated configuration is
\* the explicit command-line argument if one was given, otherwise the
\* environment variable if set, otherwise the function default; an
\* environment variable never overrides an explicit command-line argument.
C20_CliThenEnvThenDefault ==
    gen.pc = "written" =>
        /\ gen.out[1] = Layered(gen.cli.bars, EnvInt(gen.env.CAVA_BARS),
                                ConfigDefaults[1])
        /\ gen.out[2] = Layered(gen.cli.range_val, EnvInt(gen.env.CAVA_RANGE),
                                ConfigDefaults[2])
        /\ gen.out[3] = Layered(gen.cli.channels, gen.env.CAVA_CHANNELS,
                                ConfigDefaults[3])
        /\ gen.out[4] = Layered(gen.cli.reverse,
                                EnvReverse(gen.env.CAVA_REVERSE),
                                ConfigDefaults[4])

\* C20, amended: each analyzer parameter written to the generated
\* configuration is the environment variable if set (bar count and range as
\* integers, the reverse flag as an integer or 1 for true/yes/on and 0 for
\* any other text), otherwise the command-line argument if one was given,
\* otherwise the default; a set environment variable overrides an explicit
\* command-line argument, and nothing is written when CAVA_BARS or
\* CAVA_RANGE is set to something that is not an integer.
C20_EnvThenCliThenDefault ==
    gen.pc # "call" =>
        LET badint == \/ /\ gen.env.CAVA_BARS # <<>>
                         /\ IntFails(gen.env.CAVA_BARS[1])
                      \/ /\ gen.env.CAVA_RANGE # <<>>
                         /\ IntFails(gen.env.CAVA_RANGE[1])
        IN /\ badint <=> gen.pc = "raised"
           /\ gen.pc = "written" =>
                /\ gen.out[1] = Layered(EnvInt(gen.env.CAVA_BARS),
                                        gen.cli.bars, ConfigDefaults[1])
                /\ gen.out[2] = Layered(EnvInt(gen.env.CAVA_RANGE),
                                        gen.cli.range_val, ConfigDefaults[2])
                /\ gen.out[3] = Layered(gen.env.CAVA_CHANNELS,
                                        gen.cli.channels, ConfigDefaults[3])
                /\ gen.out[4] = Layered(EnvReverse(gen.env.CAVA_REVERSE),
                                        gen.cli.reverse, ConfigDefaults[4])

\* The configuration was written with both --bars 8 and CAVA_BARS=32 given,
\* and 32 is what was written.
C20_Witness ==
    /\ gen.pc = "written"
    /\ gen.cli.bars = <<ManagerArgs[1]>>
    /\ gen.env.CAVA_BARS = <<<<"3", "2">>>>
    /\ gen.out[1] = 32
    /\ gen.cli.reverse = <<ManagerArgs[4]>>
    /\ gen.env.CAVA_REVERSE = <<<<"x">>>>
    /\ gen.out[4] = 0

(***************************************************************************)
(* Claims about the subscriber session.                                    *)
(***************************************************************************)
\* The session has connected.
Connected == sub.pc \in {"recv", "done"}

\* The standby rendering of the session's settings.
SessionStandby ==
    handle_standby_mode(sub.standby_mode, sub.bar_chars, sub.width)

\* Every record after the first k is derived from broadcast data.
DataFrom(k) ==
    \A i \in (k + 1)..Len(sub.out) : sub.out[i].tooltip = "active"

\* The newline-terminated lines of a byte stream, without their newlines.
RECURSIVE LinesOf(_)
LinesOf(stream) ==
    IF ~HasNewline(stream) THEN <<>>
    ELSE <<FirstLine(stream)>> \o LinesOf(AfterFirstLine(stream))

\* One active record for each line whose formatted result is not empty.
RECURSIVE RecordsOf(_)
RecordsOf(lines) ==
    IF lines = <<>> THEN <<>>
    ELSE LET r == format_data(Head(lines), sub.bar_chars, sub.width,
                              sub.standby_mode)
         IN (IF r.pc = "returned" /\ r.out # <<>>
             THEN <<Record("active", r.out)>> ELSE <<>>)
            \o RecordsOf(Tail(lines))

\* C32: however the stream was cut into chunks, a session that has read
\* it to its end has emitted, after the record of connect, exactly one
\* record for each sent line whose formatted result is not empty, in the
\* order of the lines.
C32_LinesWhateverTheChunks ==
    sub.pc = "done" =>
        sub.out = InitialOutput(SessionStandby.out)
                    \o RecordsOf(LinesOf(sub.stream))

\* C21: for every standby policy (the default 0 included) a subscriber that
\* has connected has emitted exactly one standby record, and it precedes
\* every record derived from broadcast data.
C21_StandbyRecordFirst ==
    Connected =>
        /\ Len(sub.out) >= 1
        /\ sub.out[1] = Record("standby", SessionStandby.out)
        /\ DataFrom(1)

\* C21, amended: a subscriber that has connected has emitted exactly one
\* standby record, before every record derived from broadcast data, when
\* the standby rendering of its policy is not empty; when the rendering is
\* empty (policy 0, an empty custom string) it has emitted no standby
\* record at all.
C21_StandbyRecordFirstUnlessEmpty ==
    Connected =>
        IF SessionStandby.out # <<>>
        THEN /\ Len(sub.out) >= 1
             /\ sub.out[1] = Record("standby", SessionStandby.out)
             /\ DataFrom(1)
        ELSE DataFrom(0)

\* A session with policy 2 has printed the standby record and then a data
\* record.
C21_Witness ==
    /\ Connected
    /\ sub.standby_mode = NumPolicy(2)
    /\ Len(sub.out) = 2
    /\ sub.out[1] = Record("standby", <<"L8">>)
    /\ sub.out[2] = Record("active", <<"L2">>)

(***************************************************************************)
(* Claims about the registry layer.                                        *)
(***************************************************************************)
\* The broker p has passed the bind step and still holds its socket.
HasBound(p) == proc[p].server_socket \in {"bound", "listening"}

\* C1: at most one broker instance binds the socket path at a time: no
\* state has two live broker processes that both passed the bind step.
C1_SingleBroker ==
    \A a \in Managers : \A b \in Managers :
        (a # b /\ Alive(a) /\ Alive(b)) => ~(HasBound(a) /\ HasBound(b))

\* The step is taken by process p.
StepOf(p) == proc'[p].pc # proc[p].pc

\* The marker, as it is on disk, holds p's pid.
MarkerHolds(p) ==
    /\ pid_file # <<>>
    /\ Strip(pid_file[1]) = DecimalText(p)

\* C7: the liveness check never raises to its caller, whatever the state of
\* the artifacts, and the orphaned socket file or stale/corrupt marker it
\* detects is gone once it has handled it.
C7_CheckNeverRaises ==
    [][\A p \in Procs :
        /\ proc'[p].pc # "raised"
        /\ (proc[p].pc = "q_rm_sock" /\ StepOf(p)) => socket_file' = {}
        /\ (proc[p].pc = "q_rm_pid" /\ StepOf(p)) => pid_file' = <<>>]_vars

\* What cleanup() does about the artifacts once it runs its body, for a
\* broker p: the socket file is removed exactly when it exists and the
\* marker was read as p's own or is absent; the marker is removed exactly
\* when it is read as p's own; no other step of cleanup touches a file.
CleanupBodyRespectsOwnership(p) ==
    /\ (proc[p].pc = "c_sock_marker" /\ StepOf(p) /\ socket_file # {})
           => (proc'[p].owns_pid_file <=> MarkerHolds(p))
    /\ (proc[p].pc = "c_sock_rm" /\ StepOf(p))
           => ((socket_file # {} /\ socket_file' = {})
                  <=> (socket_file # {} /\ (proc[p].owns_pid_file \/ pid_file = <<>>)))
    /\ (proc[p].pc = "c_pid_read" /\ StepOf(p))
           => (proc'[p].pc = "c_pid_rm" <=> MarkerHolds(p))
    /\ (proc[p].pc = "c_pid_rm" /\ StepOf(p)) => pid_file' = <<>>
    /\ (proc[p].pc \in {"c_guard", "c_sock_marker", "c_pid_read", "c_exit"} /\ StepOf(p))
           => UNCHANGED <<socket_file, pid_file>>
    /\ (proc[p].pc = "c_sock_rm" /\ StepOf(p)) => UNCHANGED pid_file
    /\ (proc[p].pc = "c_pid_rm" /\ StepOf(p)) => UNCHANGED socket_file

\* cleanup() returns at its guard.
CleanupReturnsAtGuard(p) ==
    proc[p].pc = "c_guard" /\ proc'[p].pc = "c_exit"

\* C8 as stated: every run of cleanup removes the socket file and the marker
\* if and only if the broker owns them (the marker holds its pid, or the
\* marker is absent): in particular no run returns without removing a
\* socket file that it owns in that sense.
C8_CleanupIffOwned ==
    [][\A p \in Managers :
        /\ CleanupBodyRespectsOwnership(p)
        /\ CleanupReturnsAtGuard(p)
              => ~(socket_file # {} /\ (MarkerHolds(p) \/ pid_file = <<>>))]_vars

\* C8 amended: a run of cleanup by a broker that completed its bind
\* (successfully_started) removes the socket file iff the marker it read is
\* its own or the marker is absent, and removes the marker iff it reads it
\* as its own; a run by a broker that never bound returns at the guard and
\* removes nothing.
C8_CleanupIffOwnedWhenStarted ==
    [][\A p \in Managers :
        /\ CleanupBodyRespectsOwnership(p)
        /\ CleanupReturnsAtGuard(p) <=>
              (proc[p].pc = "c_guard" /\ StepOf(p) /\ ~proc[p].successfully_started)]_vars

\* A broker that started has run cleanup to its end and removed both the
\* socket file and the marker holding its pid.
C8_Witness ==
    \E p \in Managers :
        /\ proc[p].pc = "exited"
        /\ proc[p].successfully_started
        /\ proc[p].rm_sock /\ proc[p].rm_pid

\* The check run by p has returned True / False to its caller.
ReportedAlive(p) ==
    proc[p].pc = "exited" /\ proc[p].exit_why \in {"status_alive", "already_running"}

ReportedDead(p) == proc[p].pc = "exited" /\ proc[p].exit_why = "status_dead"

\* The marker on disk holds the pid of an existing process.
MarkerPidExists ==
    /\ pid_file # <<>>
    /\ ParsesAsInt(Strip(pid_file[1]))
    /\ PidExists(DecimalValue(Strip(pid_file[1])))

\* C26: with artifacts that nothing else changes, the liveness check reports
\* alive if and only if the socket path accepts a connection or the marker
\* holds the pid of an existing process; it reports alive on a connectable
\* socket without touching an artifact; it removes only a socket file that
\* refuses connection and only a marker that holds no existing pid, and the
\* marker is consulted only once no socket file is left.
C26_AliveIffConnectableOrPidExists ==
    /\ [](\A p \in Probers :
            /\ ReportedAlive(p) => (Connectable \/ MarkerPidExists)
            /\ ReportedDead(p) => ~(Connectable \/ MarkerPidExists)
            /\ proc[p].pc \in {"q_read_pid", "q_kill", "q_rm_pid"}
                  => socket_file = {})
    /\ [][\A p \in Probers :
            /\ (proc[p].pc = "q_connect" /\ StepOf(p) /\ Connectable)
                  => ReportedAlive(p)'
            /\ ReportedAlive(p)' => UNCHANGED <<socket_file, pid_file>>
            /\ socket_file' # socket_file => ~Connectable
            /\ pid_file' # pid_file => ~MarkerPidExists]_vars

\* The bind of manager p failed for good.
BindGaveUp(p) == proc[p].exit_why \in {"addr_in_use", "bind_error"}

\* C27: the pid marker is written only after bind and listen have
\* succeeded: a marker that holds a broker's pid was written by that broker,
\* a broker writes it only while its socket is listening, and a broker
\* whose bind fails never writes (or creates) the marker.
C27_MarkerOnlyAfterBind ==
    /\ [](\A p \in Managers :
            /\ MarkerHolds(p) => proc[p].wrote_pid
            /\ (proc[p].wrote_pid \/ proc[p].pid_fd)
                  => (proc[p].successfully_started /\ proc[p].binds >= 1)
            /\ BindGaveUp(p) => ~(proc[p].wrote_pid \/ proc[p].pid_fd))
    /\ [][\A p \in Managers :
            (proc[p].pc \in {"s_pid_open", "s_pid_write"} /\ StepOf(p))
                => proc[p].server_socket = "listening"]_vars

\* One broker has bound on its second attempt and written the marker, which
\* holds its pid; the other has given up on its bind and written nothing.
C27_Witness ==
    \E p \in Managers : \E q \in Managers :
        /\ MarkerHolds(p) /\ proc[p].wrote_pid /\ proc[p].binds = 2
        /\ proc[p].server_socket = "listening"
        /\ BindGaveUp(q) /\ proc[q].pc = "exited" /\ ~proc[q].wrote_pid

\* The errno of p's first bind() and of a second one after it.
FirstErrno(p) == BindErrno(proc[p].faults)
SecondErrno(p) == BindErrno(FaultsLeft(proc[p].faults))

\* p's start goes through its bind phase in this step.
BindStep(p) == proc[p].pc = "s_bind" /\ StepOf(p)

\* After the step: p has given up on its bind / holds the bound socket.
GaveUp(p) == proc'[p].pc = "c_guard" /\ proc'[p].server_socket = "closed"
HoldsSocket(p) == proc'[p].pc = "s_listen" /\ socket_file' = {p}

\* C28: on address-in-use the broker gives up after its one bind; on any
\* other bind error it binds exactly once more (after creating the
\* directory) and gives up only if that second bind fails too.
C28_RetryOnAnyOtherError ==
    [][\A p \in Managers : BindStep(p) =>
        /\ FirstErrno(p) = 0 => (proc'[p].binds = 1 /\ HoldsSocket(p))
        /\ FirstErrno(p) = 98 =>
              (proc'[p].binds = 1 /\ GaveUp(p)
                 /\ proc'[p].exit_why = "addr_in_use")
        /\ FirstErrno(p) \notin {0, 98} =>
              /\ proc'[p].binds = 2
              /\ IF SecondErrno(p) = 0 THEN HoldsSocket(p) ELSE GaveUp(p)]_vars

\* C28, amended: on address-in-use the broker gives up after its one bind;
\* on a missing path (errno 2) it binds exactly once more after creating
\* the directory and gives up only if that second bind fails too; on any
\* other bind error it gives up after its one bind, without a retry.
C28_RetryOnMissingPathOnly ==
    [][\A p \in Managers : BindStep(p) =>
        /\ FirstErrno(p) = 0 => (proc'[p].binds = 1 /\ HoldsSocket(p))
        /\ FirstErrno(p) = 98 =>
              (proc'[p].binds = 1 /\ GaveUp(p)
                 /\ proc'[p].exit_why = "addr_in_use")
        /\ FirstErrno(p) = 2 =>
              /\ proc'[p].binds = 2
              /\ IF SecondErrno(p) = 0 THEN HoldsSocket(p) ELSE GaveUp(p)
        /\ FirstErrno(p) \notin {0, 2, 98} =>
              (proc'[p].binds = 1 /\ GaveUp(p)
                 /\ proc'[p].exit_why = "bind_error")]_vars

\* One broker holds the socket after its retry, the other met another
\* error than a missing path and gave up after one bind.
C28_Witness ==
    \E p \in Managers : \E q \in Managers :
        /\ proc[p].binds = 2 /\ proc[p].server_socket \in {"bound", "listening"}
        /\ proc[q].binds = 1 /\ proc[q].exit_why = "bind_error"
        /\ proc[q].server_socket = "closed"

\* The socket file on disk is the one a live broker has bound.
SocketOfLiveBroker ==
    \E b \in socket_file : b \in Managers /\ Alive(b) /\ HasBound(b)

\* C34: no step of a liveness check removes the socket file that a live
\* broker has bound, whether the broker is between bind and listen or is
\* listening.
C34_CheckSparesLiveSocket ==
    [][\A p \in Procs :
        (proc[p].pc = "q_rm_sock" /\ StepOf(p)) => ~SocketOfLiveBroker]_vars

\* C38: a broker whose bind fails for good (address in use or another
\* error) changes neither the socket file nor the pid marker on disk, in
\* the failing bind and in every step it takes from there to its exit, and
\* it has removed neither.
C38_FailedBindSparesArtifacts ==
    /\ [][\A p \in Managers :
            ((BindStep(p) /\ GaveUp(p)) \/ (BindGaveUp(p) /\ StepOf(p)))
                => UNCHANGED <<socket_file, pid_file>>]_vars
    /\ [](\A p \in Managers :
            BindGaveUp(p) => (~proc[p].rm_sock /\ ~proc[p].rm_pid))

\* A second start has failed on address-in-use and exited while the first
\* broker listens: its socket file and its pid marker are on disk.
C38_Witness ==
    \E p \in Managers : \E q \in Managers :
        /\ proc[p].pc = "exited" /\ proc[p].exit_why = "addr_in_use"
        /\ Alive(q) /\ proc[q].server_socket = "listening"
        /\ socket_file = {q}
        /\ MarkerHolds(q)

\* The start of manager p failed and the process has ended.
StartFailed(p) ==
    /\ proc[p].pc = "exited"
    /\ proc[p].exit_why \in {"addr_in_use", "bind_error", "cava_missing"}

\* C24: a broker whose start fails because the bind fails or because the
\* analyzer binary is missing exits with a non-zero status, and on the
\* missing-analyzer path it has removed the socket file and the pid marker
\* it created.
C24_StartFailureExitsNonZero ==
    \A p \in Managers :
        StartFailed(p) =>
            /\ proc[p].exit_status # 0
            /\ proc[p].exit_why = "cava_missing" =>
                  (proc[p].rm_sock /\ proc[p].rm_pid)

\* The manager p refused to start (main's liveness check reported alive, or
\* bind failed with address-in-use) while another broker is alive.
Refused(p) ==
    /\ proc[p].pc = "exited"
    /\ proc[p].exit_why \in {"already_running", "addr_in_use"}
    /\ \E b \in Managers \ {p} : Alive(b) /\ HasBound(b)

\* C10: a manager started while another broker is alive refuses to start:
\* no analyzer, no pid marker written, and a non-zero exit status.
C10_RefusalExitsNonZero ==
    \A p \in Managers :
        Refused(p) =>
            /\ ~proc[p].analyzer
            /\ ~proc[p].wrote_pid
            /\ proc[p].exit_status # 0

====
